---------------------------- MODULE Spec2Model ----------------------------
(***************************************************************************)
(* A model of the spatial layout engine of rf_layout: the component model  *)
(* (components/base.py, passives.py, transistors.py), the placement engine *)
(* (layout/placement.py), the net manager (layout/net_manager.py), the     *)
(* router (layout/routing.py) and the rule checker (drc/checker.py), all   *)
(* working on the same component objects.                                  *)
(*                                                                         *)
(* Numbers.  The program computes with IEEE doubles.  The model computes   *)
(* with integers: every coordinate and size is a whole number of layout    *)
(* units, and the component sizes below are chosen so that every division  *)
(* the program performs on them (width/2, width*1.5/2, ...) is exact.  The  *)
(* one place where the program leaves the integers is the normalisation of *)
(* the separation vector in resolve_overlaps (a square root); there the    *)
(* model rounds the displacement to the nearest unit, which is exact       *)
(* whenever the two components are aligned on an axis.                     *)
(***************************************************************************)
EXTENDS Integers, Sequences, FiniteSets, TLC

VARIABLES
    components,      \* the shared list of component objects (Placement.components,
                     \* NetManager.components refer to the same objects)
    placement_grid,  \* Placement.placement_grid: <<>> (None) or <<[size, origin]>>
    constraints,     \* Placement.constraints: name -> (bound key -> value)
    nets,            \* NetManager.nets: net id -> net
    routes,          \* the list the last call returned, when it was generate_routing
                     \* (the one route, when it was Router.route)
    pc,              \* "idle", or "resolving" inside the loop of resolve_overlaps
    spacing,         \* the spacing argument of the resolve_overlaps call in progress
    ret,             \* the last call: its name, its target, and the error it raised
                     \* ("" for none, "running" inside the loop of resolve_overlaps)
    rules,           \* DRCChecker.rules: the list of the items <<rule key, value>>
                     \* of the dict, in its order
    violations,      \* the list the last call returned, when it was a rule check
    value            \* the value the last call returned, when it was a query on a
                     \* component (get_port_position, get_bounding_box)

vars == <<components, placement_grid, constraints, nets, routes, pc, spacing, ret,
          rules, violations, value>>

---------------------------------------------------------------------------
(* Arithmetic helpers *)

Abs(x) == IF x < 0 THEN -x ELSE x

Sign(x) == IF x < 0 THEN -1 ELSE IF x > 0 THEN 1 ELSE 0

Max2(a, b) == IF a >= b THEN a ELSE b

Min2(a, b) == IF a <= b THEN a ELSE b

\* RoundDiv always going to the next integer up
RoundDivUp(n, g) == (n \div g) + 1

\* RoundDiv cutting the fraction off
RoundDivFloor(n, g) == n \div g

\* Python's round(n / g) for integers n and g > 0: to the nearest integer,
\* a tie going to the even neighbour.
RoundDiv(n, g) ==
    LET q == n \div g
        r == n % g
    IN  IF 2 * r < g THEN q
        ELSE IF 2 * r > g THEN q + 1
        ELSE IF q % 2 = 0 THEN q ELSE q + 1

\* |v| * m / sqrt(d2), rounded to the nearest unit (d2 > 0, |v| <= sqrt(d2)):
\* the greatest k in 0..m with (2k - 1) * sqrt(d2) <= 2 * |v| * m.
ScaleUnit(v, m, d2) ==
    LET fits == {k \in 1..m : (2*k - 1) * (2*k - 1) * d2 <= 4 * v * v * m * m}
    IN  Sign(v) * (IF fits = {} THEN 0 ELSE CHOOSE k \in fits : \A j \in fits : j <= k)

EmptyDict == [k \in {} |-> 0]

---------------------------------------------------------------------------
(* Strings.  A string the program splits or concatenates (a component name,
   a port name, a "component.port" specification, a net id) is a sequence of
   tokens; "." and "_to_" are tokens of their own. *)

Dot == <<".">>

\* s.split(sep) for a one-token separator: the list of the parts
RECURSIVE SplitFrom(_, _, _, _)
SplitFrom(s, sep, i, part) ==
    IF i > Len(s) THEN <<part>>
    ELSE IF <<s[i]>> = sep THEN <<part>> \o SplitFrom(s, sep, i + 1, <<>>)
    ELSE SplitFrom(s, sep, i + 1, Append(part, s[i]))

Split(s, sep) == SplitFrom(s, sep, 1, <<>>)

---------------------------------------------------------------------------
(* The component model *)

\* Resistor._calculate_ports
ResistorPorts(length) ==
    (<<"port1">> :> <<-(length \div 2), 0>>) @@ (<<"port2">> :> <<length \div 2, 0>>)

\* Resistor.__init__, with the layer left at its default
Resistor(name, position, width, length, orientation) ==
    [kind |-> "Resistor", name |-> name, position |-> position,
     orientation |-> orientation, width |-> width, length |-> length,
     fingers |-> 1, layer |-> "metal1", ports |-> ResistorPorts(length)]

\* NMOS._calculate_ports
NMOSPorts(width, length, fingers) ==
    LET gate_width == width * fingers
    IN  (<<"source">> :> <<-(gate_width \div 2), 0>>)
          @@ (<<"drain">> :> <<gate_width \div 2, 0>>)
          @@ (<<"gate">> :> <<0, -length>>)
          @@ (<<"bulk">> :> <<0, length>>)

\* NMOS.__init__ (through Transistor.__init__), with the layer left at its
\* default
NMOS(name, position, width, length, fingers, orientation) ==
    [kind |-> "NMOS", name |-> name, position |-> position,
     orientation |-> orientation, width |-> width, length |-> length,
     fingers |-> fingers, layer |-> "metal1",
     ports |-> NMOSPorts(width, length, fingers)]

\* Transistor._calculate_ports, which PMOS inherits
TransistorPorts(width, length, fingers) ==
    LET gate_width == width * fingers
    IN  (<<"source">> :> <<-(gate_width \div 2), 0>>)
          @@ (<<"drain">> :> <<gate_width \div 2, 0>>)
          @@ (<<"gate">> :> <<0, -(length \div 2)>>)
          @@ (<<"bulk">> :> <<0, length \div 2>>)

\* PMOS.__init__ (through Transistor.__init__), with the layer left at its
\* default
PMOS(name, position, width, length, fingers, orientation) ==
    [kind |-> "PMOS", name |-> name, position |-> position,
     orientation |-> orientation, width |-> width, length |-> length,
     fingers |-> fingers, layer |-> "active",
     ports |-> TransistorPorts(width, length, fingers)]

\* Capacitor._calculate_ports
CapacitorPorts(length) ==
    (<<"port1">> :> <<0, length \div 2>>) @@ (<<"port2">> :> <<0, -(length \div 2)>>)

\* Capacitor.__init__, with the layers left at their defaults; a capacitor has
\* no attribute 'layer'
Capacitor(name, position, width, length, orientation) ==
    [kind |-> "Capacitor", name |-> name, position |-> position,
     orientation |-> orientation, width |-> width, length |-> length,
     top_layer |-> "metal5", bot_layer |-> "metal4",
     ports |-> CapacitorPorts(length)]

\* Inductor._calculate_size
OuterSize(turns, width, turn_spacing) == 2 * turns * (width + turn_spacing)

\* Inductor._calculate_ports
InductorPorts(outer_size) ==
    (<<"port1">> :> <<-(outer_size \div 2), 0>>) @@ (<<"port2">> :> <<0, 0>>)

\* Inductor.__init__, with the layer left at its default
Inductor(name, position, turns, width, turn_spacing, orientation) ==
    [kind |-> "Inductor", name |-> name, position |-> position,
     orientation |-> orientation, turns |-> turns, width |-> width,
     spacing |-> turn_spacing, layer |-> "metal5",
     outer_size |-> OuterSize(turns, width, turn_spacing),
     ports |-> InductorPorts(OuterSize(turns, width, turn_spacing))]

\* Rotate turning clockwise
RotateClockwise(orientation, v) ==
    CASE orientation = 0   -> v
      [] orientation = 90  -> <<v[2], -v[1]>>
      [] orientation = 180 -> <<-v[1], -v[2]>>
      [] orientation = 270 -> <<-v[2], v[1]>>

\* The rotation of get_port_position, counter-clockwise, for the right angles
\* (cos and sin are 0, 1 or -1 there, up to the rounding of the doubles).
Rotate(orientation, v) ==
    CASE orientation = 0   -> v
      [] orientation = 90  -> <<-v[2], v[1]>>
      [] orientation = 180 -> <<-v[1], -v[2]>>
      [] orientation = 270 -> <<v[2], -v[1]>>

\* Component.get_port_position, for a port the component has
get_port_position(c, port_name) ==
    LET relative_pos == Rotate(c.orientation, c.ports[port_name])
    IN  <<c.position[1] + relative_pos[1], c.position[2] + relative_pos[2]>>

\* get_bounding_box of the variants (Resistor, Capacitor, Inductor and
\* Transistor, which NMOS and PMOS inherit): <<min, max>>.  None of them looks
\* at the orientation.
get_bounding_box(c) ==
    IF c.kind = "Resistor"
    THEN LET contact_size == (c.width * 3) \div 2
         IN  << <<c.position[1] - c.length \div 2 - contact_size \div 2,
                  c.position[2] - contact_size \div 2>>,
                <<c.position[1] + c.length \div 2 + contact_size \div 2,
                  c.position[2] + contact_size \div 2>> >>
    ELSE IF c.kind = "Capacitor"
    THEN << <<c.position[1] - c.width \div 2, c.position[2] - c.length \div 2>>,
            <<c.position[1] + c.width \div 2, c.position[2] + c.length \div 2>> >>
    ELSE IF c.kind = "Inductor"
    THEN LET half_size == c.outer_size \div 2
         IN  << <<c.position[1] - half_size, c.position[2] - half_size>>,
                <<c.position[1] + half_size, c.position[2] + half_size>> >>
    ELSE LET gate_width == c.width * c.fingers
         IN  << <<c.position[1] - gate_width \div 2 - c.length,
                  c.position[2] - c.width>>,
                <<c.position[1] + gate_width \div 2 + c.length,
                  c.position[2] + c.width>> >>

BoxWidth(bbox) == bbox[2][1] - bbox[1][1]

BoxHeight(bbox) == bbox[2][2] - bbox[1][2]

---------------------------------------------------------------------------
(* The design the engines are built on, and the bounds of the model *)

MaxSpacing == 1

MaxNets == 2

MaxGridSize == 4

MaxCoord == 4

R1 == <<"R1">>

M1 == <<"M1">>

R2 == <<"R2">>

X9 == <<"X9">>

\* The component list: two resistors of the same size around a transistor
\* turned by 90 degrees; R2 starts on top of R1
Design ==
    << Resistor(R1, <<0, 0>>, 4, 2, 0),
       NMOS(M1, <<11, 0>>, 2, 1, 1, 90),
       Resistor(R2, <<1, 0>>, 4, 2, 0) >>

---------------------------------------------------------------------------
(* The placement engine: layout/placement.py *)

\* snap_to_grid that also turns the component back to orientation 0
snap_to_grid_turning(component, grid) ==
    IF grid = <<>> THEN component
    ELSE [component EXCEPT !.orientation = 0]

\* Placement.snap_to_grid: the component with its position on the grid
snap_to_grid(component, grid) ==
    IF Len(grid) = 0 THEN component
    ELSE LET grid_size == grid[1].size
             origin == grid[1].origin
             x == origin[1]
                    + RoundDiv(component.position[1] - origin[1], grid_size) * grid_size
             y == origin[2]
                    + RoundDiv(component.position[2] - origin[2], grid_size) * grid_size
         IN  [component EXCEPT !.position = <<x, y>>]

\* Placement.snap_all_to_grid
snap_all_to_grid(comps, grid) ==
    IF Len(grid) = 0 THEN comps
    ELSE [i \in 1..Len(comps) |-> snap_to_grid(comps[i], grid)]

\* BoxesOverlap with the comparisons not strict
BoxesOverlapOrTouch(bbox1, bbox2) ==
    /\ bbox1[1][1] <= bbox2[2][1]
    /\ bbox1[2][1] >= bbox2[1][1]
    /\ bbox1[1][2] <= bbox2[2][2]
    /\ bbox1[2][2] >= bbox2[1][2]

\* The test of check_overlaps on two bounding boxes
BoxesOverlap(bbox1, bbox2) ==
    /\ bbox1[1][1] < bbox2[2][1]
    /\ bbox1[2][1] > bbox2[1][1]
    /\ bbox1[1][2] < bbox2[2][2]
    /\ bbox1[2][2] > bbox2[1][2]

\* The pairs <<i, j>>, i < j, in the order the two loops of check_overlaps
\* visit them
RECURSIVE PairsFrom(_, _, _)
PairsFrom(i, j, n) ==
    IF i > n THEN <<>>
    ELSE IF j > n THEN PairsFrom(i + 1, i + 2, n)
    ELSE << <<i, j>> >> \o PairsFrom(i, j + 1, n)

\* check_overlaps with the inner loop running over the whole list
check_overlaps_both_orders(comps) ==
    LET n == Len(comps)
        all == [k \in 1..(n * n) |-> <<((k - 1) \div n) + 1, ((k - 1) % n) + 1>>]
    IN  SelectSeq(all,
                  LAMBDA p : /\ p[1] # p[2]
                             /\ BoxesOverlap(get_bounding_box(comps[p[1]]),
                                             get_bounding_box(comps[p[2]])))

\* Placement.check_overlaps: the list of overlapping pairs, each a pair of
\* indexes into the component list
check_overlaps(comps) ==
    SelectSeq(PairsFrom(1, 2, Len(comps)),
              LAMBDA p : BoxesOverlap(get_bounding_box(comps[p[1]]),
                                      get_bounding_box(comps[p[2]])))

\* move_dist of resolve_overlaps
MoveDist(comp1, comp2, sp) ==
    LET bbox1 == get_bounding_box(comp1)
        bbox2 == get_bounding_box(comp2)
    IN  (Max2(BoxWidth(bbox1), BoxWidth(bbox2))
           + Max2(BoxHeight(bbox1), BoxHeight(bbox2))) \div 2 + sp

\* One pass of the loop that moves the first component of the pair instead
ResolveOnceMovesFirst(comps, sp) ==
    LET first == check_overlaps(comps)[1]
        comp1 == comps[first[1]]
        comp2 == comps[first[2]]
        vec_x == comp2.position[1] - comp1.position[1]
        vec_y == comp2.position[2] - comp1.position[2]
        d2 == vec_x * vec_x + vec_y * vec_y
        move_dist == MoveDist(comp1, comp2, sp)
        dx == IF d2 = 0 THEN move_dist ELSE ScaleUnit(vec_x, move_dist, d2)
        dy == IF d2 = 0 THEN 0 ELSE ScaleUnit(vec_y, move_dist, d2)
    IN  [comps EXCEPT ![first[1]].position = <<@[1] - dx, @[2] - dy>>]

\* One pass through the body of the loop of resolve_overlaps, for a list with
\* at least one overlap: the second component of the first pair moves away
\* from the first
ResolveOnce(comps, sp) ==
    LET first == check_overlaps(comps)[1]
        comp1 == comps[first[1]]
        comp2 == comps[first[2]]
        vec_x == comp2.position[1] - comp1.position[1]
        vec_y == comp2.position[2] - comp1.position[2]
        d2 == vec_x * vec_x + vec_y * vec_y
        move_dist == MoveDist(comp1, comp2, sp)
        dx == IF d2 = 0 THEN move_dist ELSE ScaleUnit(vec_x, move_dist, d2)
        dy == IF d2 = 0 THEN 0 ELSE ScaleUnit(vec_y, move_dist, d2)
    IN  [comps EXCEPT ![first[2]].position = <<@[1] + dx, @[2] + dy>>]

\* The kinds of the components, in the order of first appearance (the keys of
\* comp_types in auto_place)
RECURSIVE KindsFrom(_, _, _)
KindsFrom(comps, i, seen) ==
    IF i > Len(comps) THEN <<>>
    ELSE IF comps[i].kind \in seen THEN KindsFrom(comps, i + 1, seen)
    ELSE <<comps[i].kind>> \o KindsFrom(comps, i + 1, seen \cup {comps[i].kind})

\* One row of auto_place: the components of one kind from index i on, placed
\* from current_x; the result carries the row's height
RECURSIVE PlaceRow(_, _, _, _, _, _, _)
PlaceRow(comps, kind, i, current_x, current_y, row_height, sp) ==
    IF i > Len(comps) THEN [components |-> comps, row_height |-> row_height]
    ELSE IF comps[i].kind # kind
    THEN PlaceRow(comps, kind, i + 1, current_x, current_y, row_height, sp)
    ELSE LET bbox == get_bounding_box(comps[i])
             width == BoxWidth(bbox)
             height == BoxHeight(bbox)
             placed == [comps EXCEPT ![i].position =
                           <<current_x + width \div 2, current_y + height \div 2>>]
         IN  PlaceRow(placed, kind, i + 1, current_x + width + sp, current_y,
                      Max2(row_height, height), sp)

\* The rows of auto_place, one per kind, from the t-th kind on
RECURSIVE PlaceRows(_, _, _, _, _)
PlaceRows(comps, kinds, t, current_y, sp) ==
    IF t > Len(kinds) THEN comps
    ELSE LET row == PlaceRow(comps, kinds[t], 1, 0, current_y, 0, sp)
         IN  PlaceRows(row.components, kinds, t + 1, current_y + row.row_height + sp, sp)

\* auto_place with the first row one spacing up
auto_place_raised(comps, sp) ==
    IF Len(comps) = 0 THEN comps
    ELSE PlaceRows(comps, KindsFrom(comps, 1, {}), 1, sp, sp)

\* Placement.auto_place
auto_place(comps, sp) ==
    IF Len(comps) = 0 THEN comps
    ELSE PlaceRows(comps, KindsFrom(comps, 1, {}), 1, 0, sp)

\* next((c for c in self.components if c.name == name), None): the index of
\* the first component of that name, 0 for None
FindComponent(comps, name) ==
    LET found == {i \in 1..Len(comps) : comps[i].name = name}
    IN  IF found = {} THEN 0 ELSE CHOOSE i \in found : \A j \in found : i <= j

\* self.constraints.get(component_name, {})
ConstraintsOf(cons, name) ==
    IF name \in DOMAIN cons THEN cons[name] ELSE EmptyDict

\* ViolatesConstraints with the bounds on y left unchecked
ViolatesConstraintsXOnly(c, new_position) ==
    /\ c # EmptyDict
    /\ \/ ("min_x" \in DOMAIN c /\ new_position[1] < c["min_x"])
       \/ ("max_x" \in DOMAIN c /\ new_position[1] > c["max_x"])

\* The condition under which move_component raises the constraint error
ViolatesConstraints(c, new_position) ==
    /\ c # EmptyDict
    /\ \/ ("min_x" \in DOMAIN c /\ new_position[1] < c["min_x"])
       \/ ("max_x" \in DOMAIN c /\ new_position[1] > c["max_x"])
       \/ ("min_y" \in DOMAIN c /\ new_position[2] < c["min_y"])
       \/ ("max_y" \in DOMAIN c /\ new_position[2] > c["max_y"])

\* Placement.move_component: the error it raises ("" for none) and the
\* component list it leaves
move_component(comps, cons, grid, component_name, new_position) ==
    LET i == FindComponent(comps, component_name)
    IN  IF i = 0
        THEN [err |-> "ComponentNotFound", components |-> comps]
        ELSE IF ViolatesConstraints(ConstraintsOf(cons, component_name), new_position)
        THEN [err |-> "ConstraintViolation", components |-> comps]
        ELSE [err |-> "",
              components |->
                  [comps EXCEPT ![i] =
                      snap_to_grid([@ EXCEPT !.position = new_position], grid)]]

\* MergeBounds replacing the stored constraint by the given bounds
ReplaceBounds(old, given) == given

\* The update add_constraint makes to one component's constraint: the given
\* bounds (those not None) over the stored ones
MergeBounds(old, given) ==
    [k \in DOMAIN old \cup DOMAIN given |-> IF k \in DOMAIN given THEN given[k] ELSE old[k]]

\* The constraint map add_constraint leaves
StoreConstraint(cons, name, given) ==
    [n \in DOMAIN cons \cup {name} |->
        IF n = name THEN MergeBounds(ConstraintsOf(cons, name), given) ELSE cons[n]]

---------------------------------------------------------------------------
(* The net manager: layout/net_manager.py *)

\* self.components[name] of NetManager: the component object of that name,
\* as its index in the shared list (the last of that name, as the dict
\* comprehension of __init__ keeps it)
NetComponent(comps, name) ==
    CHOOSE i \in 1..Len(comps) :
        /\ comps[i].name = name
        /\ \A j \in 1..Len(comps) : comps[j].name = name => j <= i

\* The keys of NetManager.components
NetComponentNames(comps) == {comps[i].name : i \in 1..Len(comps)}

\* f"{from_port}_to_{to_port}"
NetId(from_port, to_port) == from_port \o <<"_to_">> \o to_port

\* self.nets[net_id] = net on an insertion-ordered dict: an existing key keeps
\* its place, a new key goes last
PutNet(netlist, net) ==
    IF \E k \in 1..Len(netlist) : netlist[k].id = net.id
    THEN [k \in 1..Len(netlist) |-> IF netlist[k].id = net.id THEN net ELSE netlist[k]]
    ELSE Append(netlist, net)

\* NetManager.add_connection: the error it raises ("" for none) and the nets
\* it leaves
add_connection(netlist, comps, from_port, to_port, width, layer) ==
    LET fp == Split(from_port, Dot)
        tp == Split(to_port, Dot)
    IN  IF Len(fp) # 2 \/ Len(tp) # 2
        THEN [err |-> "ValueError", nets |-> netlist]
        ELSE IF fp[1] \notin NetComponentNames(comps) \/ tp[1] \notin NetComponentNames(comps)
        THEN [err |-> "ComponentNotFound", nets |-> netlist]
        ELSE [err |-> "",
              nets |-> PutNet(netlist,
                  [id |-> NetId(from_port, to_port),
                   from |-> [component |-> NetComponent(comps, fp[1]), port |-> fp[2]],
                   to |-> [component |-> NetComponent(comps, tp[1]), port |-> tp[2]],
                   width |-> width, layer |-> layer])]

\* The layer number the routes are given: "metalN" becomes the int N, anything
\* else stays the str it is.  (A Python value that is an int or a str is a
\* record with the one field int or str, so that isinstance can be asked.)
LayerNumber(layer) ==
    CASE layer = "metal1" -> [int |-> 1]
      [] layer = "metal2" -> [int |-> 2]
      [] OTHER -> [str |-> layer]

\* NetManager._manhattan_route: the gdspy.FlexPath it builds
manhattan_route(from_pos, to_pos, width, layer) ==
    [points |-> <<from_pos, <<to_pos[1], from_pos[2]>>, to_pos>>,
     width |-> width, layer |-> LayerNumber(layer), corners |-> "miter"]

\* _direct_route with the path from the destination to the source
direct_route_reversed(from_pos, to_pos, width, layer) ==
    [points |-> <<to_pos, from_pos>>,
     width |-> width, layer |-> LayerNumber(layer), corners |-> "natural"]

\* NetManager._direct_route
direct_route(from_pos, to_pos, width, layer) ==
    [points |-> <<from_pos, to_pos>>,
     width |-> width, layer |-> LayerNumber(layer), corners |-> "natural"]

\* NetEndpoint on a copy of the components taken when the net manager was built
NetEndpointCopied(comps, ref) == Design[ref]

\* net_info['from']['component']: the component object a net refers to, as it
\* is now
NetEndpoint(comps, ref) == comps[ref]

\* The loop of generate_routing from the k-th net on: the error it raises
\* ("" for none) and the routes
RECURSIVE RoutesFrom(_, _, _, _)
RoutesFrom(netlist, comps, routing_strategy, k) ==
    IF k > Len(netlist) THEN [err |-> "", routes |-> <<>>]
    ELSE LET net_info == netlist[k]
             from_comp == NetEndpoint(comps, net_info.from.component)
             to_comp == NetEndpoint(comps, net_info.to.component)
         IN  IF net_info.from.port \notin DOMAIN from_comp.ports
                  \/ net_info.to.port \notin DOMAIN to_comp.ports
             THEN [err |-> "UnknownPort", routes |-> <<>>]
             ELSE IF routing_strategy \notin {"manhattan", "direct"}
             THEN [err |-> "UnsupportedStrategy", routes |-> <<>>]
             ELSE LET from_pos == get_port_position(from_comp, net_info.from.port)
                      to_pos == get_port_position(to_comp, net_info.to.port)
                      route == IF routing_strategy = "manhattan"
                               THEN manhattan_route(from_pos, to_pos,
                                                    net_info.width, net_info.layer)
                               ELSE direct_route(from_pos, to_pos,
                                                 net_info.width, net_info.layer)
                      rest == RoutesFrom(netlist, comps, routing_strategy, k + 1)
                  IN  IF rest.err # "" THEN rest
                      ELSE [err |-> "", routes |-> <<route>> \o rest.routes]

\* NetManager.generate_routing
generate_routing(netlist, comps, routing_strategy) ==
    RoutesFrom(netlist, comps, routing_strategy, 1)

\* The first loop of RFLayout.route_connections from the k-th connection on:
\* every connection is added to the net manager
RECURSIVE AddConnectionsFrom(_, _, _, _)
AddConnectionsFrom(netlist, comps, connections, k) ==
    IF k > Len(connections) THEN [err |-> "", nets |-> netlist]
    ELSE LET conn == connections[k]
             added == add_connection(netlist, comps, conn.from, conn.to,
                                     conn.width, conn.layer)
         IN  IF added.err # "" THEN added
             ELSE AddConnectionsFrom(added.nets, comps, connections, k + 1)

\* The second loop of RFLayout.route_connections from the k-th connection on:
\* for every connection generate_routing is called with the strategy of that
\* connection, and what it returns is appended
RECURSIVE RouteConnectionsFrom(_, _, _, _)
RouteConnectionsFrom(netlist, comps, connections, k) ==
    IF k > Len(connections) THEN [err |-> "", routes |-> <<>>]
    ELSE LET conn_routes == generate_routing(netlist, comps, connections[k].strategy)
             rest == RouteConnectionsFrom(netlist, comps, connections, k + 1)
         IN  IF conn_routes.err # "" THEN conn_routes
             ELSE IF rest.err # "" THEN rest
             ELSE [err |-> "", routes |-> conn_routes.routes \o rest.routes]

\* RFLayout.route_connections: the error it raises ("" for none) and the
\* routes it returns
route_connections(comps, connections) ==
    LET net_mgr == AddConnectionsFrom(<<>>, comps, connections, 1)
    IN  IF net_mgr.err # "" THEN [err |-> net_mgr.err, routes |-> <<>>]
        ELSE RouteConnectionsFrom(net_mgr.nets, comps, connections, 1)

---------------------------------------------------------------------------
(* The router: layout/routing.py *)

\* Router._get_layer_number
get_layer_number(layer) ==
    CASE layer = "metal1" -> [int |-> 1]
      [] layer = "metal2" -> [int |-> 2]
      [] OTHER -> [str |-> layer]

\* Router._manhattan_route going vertical first
router_manhattan_route_vertical_first(from_pos, to_pos, width, layer) ==
    [points |-> <<from_pos, <<from_pos[1], to_pos[2]>>, to_pos>>,
     width |-> width, layer |-> get_layer_number(layer), corners |-> "miter"]

\* Router._manhattan_route
router_manhattan_route(from_pos, to_pos, width, layer) ==
    [points |-> <<from_pos, <<to_pos[1], from_pos[2]>>, to_pos>>,
     width |-> width, layer |-> get_layer_number(layer), corners |-> "miter"]

\* Router._direct_route
router_direct_route(from_pos, to_pos, width, layer) ==
    [points |-> <<from_pos, to_pos>>,
     width |-> width, layer |-> get_layer_number(layer), corners |-> "natural"]

\* Router._optimized_route (the sums of the coordinates given are even, so
\* the midpoint is a whole number)
optimized_route(from_pos, to_pos, width, layer) ==
    LET mid_y == (from_pos[2] + to_pos[2]) \div 2
    IN  [points |-> <<from_pos, <<from_pos[1], mid_y>>, <<to_pos[1], mid_y>>, to_pos>>,
         width |-> width, layer |-> get_layer_number(layer), corners |-> "miter"]

\* Router.route: the error it raises ("" for none) and the route, in a list
route(from_pos, to_pos, width, layer, strategy) ==
    IF strategy = "manhattan"
    THEN [err |-> "", routes |-> <<router_manhattan_route(from_pos, to_pos, width, layer)>>]
    ELSE IF strategy = "direct"
    THEN [err |-> "", routes |-> <<router_direct_route(from_pos, to_pos, width, layer)>>]
    ELSE IF strategy = "optimize"
    THEN [err |-> "", routes |-> <<optimized_route(from_pos, to_pos, width, layer)>>]
    ELSE [err |-> "UnsupportedStrategy", routes |-> <<>>]

\* The whole part of a square root; the end points given make every distance
\* taken a whole number
ISqrt(n) == CHOOSE r \in 0..n : r * r <= n /\ (r + 1) * (r + 1) > n

\* np.sqrt((b[0] - a[0])**2 + (b[1] - a[1])**2)
Distance(a, b) ==
    ISqrt((b[1] - a[1]) * (b[1] - a[1]) + (b[2] - a[2]) * (b[2] - a[2]))

\* The detour of route_differential_pair: (1.5 * max - min) / 2
detour_size(dist1, dist2) ==
    (3 * Max2(dist1, dist2) - 2 * Min2(dist1, dist2)) \div 4

\* Router.route_differential_pair: the shorter route and the longer one; on
\* equal distances the second pairing is the shorter.  The argument spacing
\* is not read.
route_differential_pair(from_pos1, from_pos2, to_pos1, to_pos2, width, sp, layer) ==
    LET dist1 == Distance(from_pos1, to_pos1)
        dist2 == Distance(from_pos2, to_pos2)
        first_shorter == dist1 < dist2
        shorter_from == IF first_shorter THEN from_pos1 ELSE from_pos2
        shorter_to == IF first_shorter THEN to_pos1 ELSE to_pos2
        longer_from == IF first_shorter THEN from_pos2 ELSE from_pos1
        longer_to == IF first_shorter THEN to_pos2 ELSE to_pos1
        mid_x == (longer_from[1] + longer_to[1]) \div 2
        mid_y == (longer_from[2] + longer_to[2]) \div 2
        d == detour_size(dist1, dist2)
    IN  << router_manhattan_route(shorter_from, shorter_to, width, layer),
           [points |-> <<longer_from, <<mid_x, mid_y + d>>, <<mid_x, mid_y - d>>,
                         longer_to>>,
            width |-> width, layer |-> get_layer_number(layer),
            corners |-> "miter"] >>

---------------------------------------------------------------------------
(* The rule checker: drc/checker.py.  One unit of length of the model is 0.1
   of the program's.  A rule key is a sequence of tokens, "layer_" and the
   suffixes being tokens of their own.  The value of a rule is a number,
   [num |-> n], or a dict of layer properties, [dict |-> d].  A violation's
   message is the text of its f-string without the names and numbers it
   quotes, which are the other fields of the record. *)

\* The default of rules.get('transistor_min_length', 0.1)
DefaultMinLength == 1

\* The default of rules.get('default_component_spacing', 1.0)
DefaultComponentSpacing == 10

\* self.rules.get(key): the list of the values under that key, <<>> for None
RuleGet(rls, key) ==
    LET found == {k \in 1..Len(rls) : rls[k][1] = key}
    IN  IF found = {} THEN <<>> ELSE <<rls[CHOOSE k \in found : TRUE][2]>>

\* self.rules.get(key, default) for a rule that is a number
RuleNumber(rls, key, default) ==
    IF RuleGet(rls, key) = <<>> THEN default ELSE RuleGet(rls, key)[1].num

\* f'layer_{layer_name}_min_width'
MinWidthKey(layer_name) == <<"layer_">> \o layer_name \o <<"_min_width">>

\* f'layer_{layer1}_to_{layer2}_spacing'
LayerSpacingKey(layer1, layer2) ==
    <<"layer_">> \o layer1 \o <<"_to_">> \o layer2 \o <<"_spacing">>

\* component.__class__.__name__.lower() is 'transistor', 'nmos' or 'pmos'
IsTransistor(c) == c.kind \in {"Transistor", "NMOS", "PMOS"}

\* hasattr(component, 'layer')
HasLayer(c) == "layer" \in DOMAIN c

\* The violations _check_components appends for one component, with the
\* width test not strict
ComponentViolationsNotStrict(c, rls) ==
    LET min_length_rule == RuleNumber(rls, <<"transistor_min_length">>, DefaultMinLength)
        min_width_rule ==
            IF HasLayer(c) THEN RuleNumber(rls, MinWidthKey(<<c.layer>>), 0) ELSE 0
    IN  (IF IsTransistor(c) /\ c.length < min_length_rule
         THEN <<[component |-> c.name, rule |-> <<"transistor_min_length">>,
                 value |-> c.length, limit |-> min_length_rule,
                 message |-> "Transistor length is less than minimum"]>>
         ELSE <<>>)
        \o
        (IF HasLayer(c) /\ c.width <= min_width_rule
         THEN <<[component |-> c.name, rule |-> MinWidthKey(<<c.layer>>),
                 value |-> c.width, limit |-> min_width_rule,
                 message |-> "Component width on layer is less than minimum"]>>
         ELSE <<>>)

\* The violations _check_components appends for one component
ComponentViolations(c, rls) ==
    LET min_length_rule == RuleNumber(rls, <<"transistor_min_length">>, DefaultMinLength)
        min_width_rule ==
            IF HasLayer(c) THEN RuleNumber(rls, MinWidthKey(<<c.layer>>), 0) ELSE 0
    IN  (IF IsTransistor(c) /\ c.length < min_length_rule
         THEN <<[component |-> c.name, rule |-> <<"transistor_min_length">>,
                 value |-> c.length, limit |-> min_length_rule,
                 message |-> "Transistor length is less than minimum"]>>
         ELSE <<>>)
        \o
        (IF HasLayer(c) /\ c.width < min_width_rule
         THEN <<[component |-> c.name, rule |-> MinWidthKey(<<c.layer>>),
                 value |-> c.width, limit |-> min_width_rule,
                 message |-> "Component width on layer is less than minimum"]>>
         ELSE <<>>)

\* DRCChecker._check_components, from the i-th component on
RECURSIVE CheckComponentsFrom(_, _, _)
CheckComponentsFrom(comps, rls, i) ==
    IF i > Len(comps) THEN <<>>
    ELSE ComponentViolations(comps[i], rls) \o CheckComponentsFrom(comps, rls, i + 1)

\* DRCChecker._check_components
check_components(comps, rls) == CheckComponentsFrom(comps, rls, 1)

\* name.replace('layer_', '')
WithoutLayerPrefix(name) == SelectSeq(name, LAMBDA t : t # "layer_")

\* The loop of _check_routing that looks for the name of the layer of a given
\* number, from the k-th rule on: the error it raises ("" for none) and the
\* name (<<>> for None).  props.get is called on the value of every rule
\* whose key starts with 'layer_', and a number has no get
RECURSIVE FindLayerName(_, _, _)
FindLayerName(rls, layer, k) ==
    IF k > Len(rls) THEN [err |-> "", layer_name |-> <<>>]
    ELSE LET name == rls[k][1]
             props == rls[k][2]
         IN  IF name[1] # "layer_" THEN FindLayerName(rls, layer, k + 1)
             ELSE IF "dict" \notin DOMAIN props
             THEN [err |-> "AttributeError", layer_name |-> <<>>]
             ELSE IF "number" \in DOMAIN props.dict /\ props.dict["number"] = layer
             THEN [err |-> "", layer_name |-> WithoutLayerPrefix(name)]
             ELSE FindLayerName(rls, layer, k + 1)

\* DRCChecker._check_routing from the route of index i (counted from 0) on:
\* the error it raises ("" for none) and the violations
RECURSIVE CheckRoutingFrom(_, _, _)
CheckRoutingFrom(rts, rls, i) ==
    IF i >= Len(rts) THEN [err |-> "", violations |-> <<>>]
    ELSE LET rt == rts[i + 1]
             found == IF "int" \in DOMAIN rt.layer
                      THEN FindLayerName(rls, rt.layer.int, 1)
                      ELSE [err |-> "", layer_name |-> <<>>]
             min_width_rule == RuleNumber(rls, MinWidthKey(found.layer_name), 0)
             here == IF found.layer_name # <<>> /\ rt.width < min_width_rule
                     THEN <<[route |-> <<"route_", i>>,
                             rule |-> MinWidthKey(found.layer_name),
                             value |-> rt.width, limit |-> min_width_rule,
                             message |-> "Route width on layer is less than minimum"]>>
                     ELSE <<>>
             rest == CheckRoutingFrom(rts, rls, i + 1)
         IN  IF found.err # "" THEN [err |-> found.err, violations |-> <<>>]
             ELSE IF rest.err # "" THEN rest
             ELSE [err |-> "", violations |-> here \o rest.violations]

\* DRCChecker._check_routing
check_routing(rts, rls) == CheckRoutingFrom(rts, rls, 0)

\* The spacing rule _check_component_spacing holds a pair of components to
SpacingLimit(comp1, comp2, rls) ==
    LET forward == IF HasLayer(comp1) /\ HasLayer(comp2)
                   THEN RuleNumber(rls, LayerSpacingKey(<<comp1.layer>>, <<comp2.layer>>), 0)
                   ELSE 0
        spacing_rule == IF forward # 0 \/ ~(HasLayer(comp1) /\ HasLayer(comp2))
                        THEN forward
                        ELSE RuleNumber(rls, LayerSpacingKey(<<comp2.layer>>,
                                                             <<comp1.layer>>), 0)
    IN  IF spacing_rule # 0 THEN spacing_rule
        ELSE RuleNumber(rls, <<"default_component_spacing">>, DefaultComponentSpacing)

\* The violations _check_component_spacing appends for one pair of components
PairViolations(comp1, comp2, rls) ==
    LET bbox1 == get_bounding_box(comp1)
        bbox2 == get_bounding_box(comp2)
        x_overlap == bbox1[1][1] < bbox2[2][1] /\ bbox1[2][1] > bbox2[1][1]
        y_overlap == bbox1[1][2] < bbox2[2][2] /\ bbox1[2][2] > bbox2[1][2]
        min_spacing == SpacingLimit(comp1, comp2, rls)
        a == IF x_overlap THEN 2 ELSE 1
        sp == Min2(Abs(bbox1[1][a] - bbox2[2][a]), Abs(bbox1[2][a] - bbox2[1][a]))
    IN  IF x_overlap /\ y_overlap
        THEN <<[component1 |-> comp1.name, component2 |-> comp2.name,
                rule |-> <<"component_overlap">>,
                message |-> "Components overlap"]>>
        ELSE IF (x_overlap \/ y_overlap) /\ sp < min_spacing
        THEN <<[component1 |-> comp1.name, component2 |-> comp2.name,
                rule |-> <<"min_component_spacing">>,
                value |-> sp, limit |-> min_spacing,
                message |-> "Spacing between components is less than minimum"]>>
        ELSE <<>>

\* DRCChecker._check_component_spacing, from the k-th pair on
RECURSIVE CheckSpacingFrom(_, _, _, _)
CheckSpacingFrom(comps, rls, pairs, k) ==
    IF k > Len(pairs) THEN <<>>
    ELSE PairViolations(comps[pairs[k][1]], comps[pairs[k][2]], rls)
            \o CheckSpacingFrom(comps, rls, pairs, k + 1)

\* DRCChecker._check_component_spacing
check_component_spacing(comps, rls) ==
    CheckSpacingFrom(comps, rls, PairsFrom(1, 2, Len(comps)), 1)

\* DRCChecker.run_all_checks: the error it raises ("" for none) and the
\* violations it returns
run_all_checks(comps, rts, rls) ==
    LET routing == check_routing(rts, rls)
    IN  IF routing.err # "" THEN [err |-> routing.err, violations |-> <<>>]
        ELSE [err |-> "",
              violations |-> check_components(comps, rls)
                                \o routing.violations
                                \o check_component_spacing(comps, rls)]

\* checker.check_spacing(components, layer) and checker.check_width(components,
\* layer), as the tests call them: DRCChecker defines __init__, run_all_checks
\* and the three checks above and nothing else, so the attribute is not found
check_spacing(comps, rls, layer) == [err |-> "AttributeError", violations |-> <<>>]

check_width(comps, rls, layer) == [err |-> "AttributeError", violations |-> <<>>]

---------------------------------------------------------------------------
(* The arguments of the calls *)

\* Names given to move_component: of the components the calls move, and one
\* that no component has
MoveNames == {M1, R2, X9}

\* Names given to add_constraint
ConstraintNames == {M1, X9}

MoveTargets == {<<1, 0>>, <<11, 0>>, <<7, 12>>, <<-10, -10>>}

GridSizes == {4}

GridOrigins == {<<1, 1>>}

Spacings == 1..MaxSpacing

\* The bounds given to add_constraint (a bound left out is None)
BoundsGiven ==
    { EmptyDict,
      ("min_x" :> 0) @@ ("max_x" :> 10) @@ ("min_y" :> 0) @@ ("max_y" :> 10),
      ("max_x" :> 5) }

\* f"{component}.{port}", as the callers of add_connection write it
PortSpec(component, port) == component \o Dot \o port

FromSpecs ==
    { PortSpec(M1, <<"drain">>), PortSpec(M1, <<"invalid_port">>),
      PortSpec(X9, <<"port1">>) }

ToSpecs == { PortSpec(R1, <<"port1">>), PortSpec(R2, <<"port2">>) }

Widths == {1, 2}

\* Where M1 is moved between calls on the net manager
NetMoveTargets == {<<1, 0>>, <<7, 12>>}

Layers == {"metal1"}

\* The three strategies of the router, and a name that is none of them
Strategies == {"manhattan", "direct", "optimize", "zigzag"}

\* The end points given to Router.route
RoutePoints == {<<0, 0>>, <<4, 0>>, <<4, 6>>, <<-2, 2>>}

RouteLayers == {"metal1", "poly"}

\* The end points given to route_differential_pair: the first pairing the
\* shorter, the second the shorter, both of one length, and a longer pairing
\* that runs along x
DiffPairs ==
    { [from_pos1 |-> <<0, 0>>, to_pos1 |-> <<4, 0>>,
       from_pos2 |-> <<0, 0>>, to_pos2 |-> <<0, 8>>],
      [from_pos1 |-> <<0, 0>>, to_pos1 |-> <<0, 8>>,
       from_pos2 |-> <<0, 0>>, to_pos2 |-> <<4, 0>>],
      [from_pos1 |-> <<0, 0>>, to_pos1 |-> <<0, 8>>,
       from_pos2 |-> <<2, 0>>, to_pos2 |-> <<2, 8>>],
      [from_pos1 |-> <<1, 0>>, to_pos1 |-> <<1, 1>>,
       from_pos2 |-> <<0, 0>>, to_pos2 |-> <<6, 0>>] }

\* f"layer_{layer_name}_min_spacing", the key of the technology's spacing rule
MinSpacingKey(layer_name) == <<"layer_">> \o layer_name \o <<"_min_spacing">>

\* The rule tables given to DRCChecker: none; the table of the tests; a table
\* with the properties of a layer before its width rule; a table with the
\* keys _check_component_spacing and _check_components read
RuleTables ==
    { <<>>,
      << <<MinSpacingKey(<<"metal1">>), [num |-> 20]>>,
         <<MinWidthKey(<<"metal1">>), [num |-> 10]>>,
         <<MinSpacingKey(<<"poly">>), [num |-> 5]>>,
         <<MinWidthKey(<<"poly">>), [num |-> 2]>> >>,
      << <<<<"layer_", "metal1">>, [dict |-> ("number" :> 1)]>>,
         <<MinWidthKey(<<"metal1">>), [num |-> 10]>> >>,
      << <<LayerSpacingKey(<<"metal1">>, <<"metal1">>), [num |-> 20]>>,
         <<<<"default_component_spacing">>, [num |-> 5]>>,
         <<<<"transistor_min_length">>, [num |-> 3]>> >> }

\* The layers named in the calls on the rule checker
DrcLayers == {"metal1", "poly", "invalid_layer"}

\* The components given to the rule checker: a resistor and a transistor on
\* metal1, and a second resistor of the given width and layer
DrcDesign(width, layer) ==
    << Resistor(R1, <<0, 0>>, 8, 20, 0),
       NMOS(M1, <<0, 100>>, 10, 2, 1, 0),
       [Resistor(R2, <<10, 0>>, width, 20, 0) EXCEPT !.layer = layer] >>

DrcWidths == {8, 12}

\* Where R2 is moved between the checks: on top of R1, far from it, beside it
\* at a distance between the default spacing and the spacing rule of the
\* tests, beside it at less than the default spacing, and off R1's corner
DrcTargets == {<<10, 0>>, <<200, 0>>, <<47, 0>>, <<37, 0>>, <<40, 20>>}

\* The route lists given to run_all_checks
RouteLists ==
    { <<>>,
      <<direct_route(<<0, 0>>, <<40, 0>>, 5, "metal1")>>,
      <<manhattan_route(<<0, 0>>, <<40, 20>>, 20, "poly"),
        direct_route(<<0, 0>>, <<40, 0>>, 5, "metal2")>> }

C1n == <<"C1">>

L1 == <<"L1">>

M2 == <<"M2">>

\* One component of each variant, for the queries on components
GeomDesign ==
    << Resistor(R1, <<3, 1>>, 4, 2, 0),
       NMOS(M1, <<-5, 2>>, 2, 1, 1, 0),
       Capacitor(C1n, <<0, -7>>, 4, 6, 0),
       Inductor(L1, <<20, 20>>, 2, 1, 1, 0),
       PMOS(M2, <<9, -4>>, 2, 2, 1, 0) >>

\* The components the lists given to auto_place are made of: two of one type
\* and of different sizes, and one of each other type
PlacePool ==
    { Resistor(R1, <<3, 1>>, 4, 2, 0),
      Resistor(R2, <<3, 1>>, 8, 6, 0),
      NMOS(M1, <<-5, 2>>, 2, 1, 3, 90),
      Capacitor(C1n, <<0, -7>>, 2, 8, 0),
      Inductor(L1, <<20, 20>>, 2, 1, 1, 0),
      PMOS(M2, <<9, -4>>, 2, 2, 1, 0) }

\* The longest list given to auto_place
MaxPlaced == 3

\* The lists given to auto_place: each of different components of the pool
PlaceLists ==
    UNION { { q \in [1..n -> PlacePool] : \A i, j \in 1..n : i # j => q[i] # q[j] } :
            n \in 0..MaxPlaced }

\* The spacings given to auto_place on those lists
PlaceSpacings == 0..MaxSpacing

\* The connections of a design, as _process_connections stores them
Connections ==
    [from : {PortSpec(M1, <<"drain">>), PortSpec(M1, <<"gate">>)},
     to : ToSpecs, width : Widths, layer : Layers,
     strategy : {"manhattan", "direct"}]

\* The lists of connections given to route_connections
ConnectionLists == UNION { [1..n -> Connections] : n \in 0..MaxNets }

\* A component name that holds the separator of the net identifier
R1toR2 == <<"R1", "_to_", "R2">>

\* The design with a fourth component of that name
KeyDesign == Design \o << Resistor(R1toR2, <<20, 0>>, 4, 2, 0) >>

\* The port specs given to add_connection on that design
KeyFromSpecs ==
    { PortSpec(M1, <<"drain">>), PortSpec(M1, <<"drain", "_to_", "R1">>) }

KeyToSpecs ==
    { PortSpec(R1toR2, <<"port1">>), PortSpec(R2, <<"port1">>),
      PortSpec(R1, <<"port1">>) }

KeyLayers == {"metal1", "metal2"}

\* The orientations given to the components
Orientations == {0, 90, 180, 270}

\* The port names asked for
PortNames == {<<"drain">>, <<"gate">>, <<"port1">>, <<"invalid_port">>}

---------------------------------------------------------------------------
(* The state after construction, and the calls *)

Returned(op, target, err) == [op |-> op, target |-> target, err |-> err]

Init ==
    /\ components = Design
    /\ placement_grid = <<>>
    /\ constraints = EmptyDict
    /\ nets = <<>>
    /\ routes = <<>>
    /\ pc = "idle"
    /\ spacing = 0
    /\ ret = Returned("init", <<>>, "")
    /\ rules = <<>>
    /\ violations = <<>>
    /\ value = <<>>

\* Placement.set_grid
SetGrid(grid_size, origin) ==
    /\ pc = "idle"
    /\ placement_grid' = <<[size |-> grid_size, origin |-> origin]>>
    /\ ret' = Returned("set_grid", <<>>, "")
    /\ routes' = <<>>
    /\ UNCHANGED <<components, constraints, nets, pc, spacing,
                 rules, violations, value>>

\* Placement.snap_to_grid on the i-th component
SnapToGrid(i) ==
    /\ pc = "idle"
    /\ components' = [components EXCEPT ![i] = snap_to_grid(@, placement_grid)]
    /\ ret' = Returned("snap_to_grid", components[i].name, "")
    /\ routes' = <<>>
    /\ UNCHANGED <<placement_grid, constraints, nets, pc, spacing,
                 rules, violations, value>>

\* Placement.snap_all_to_grid
SnapAllToGrid ==
    /\ pc = "idle"
    /\ components' = snap_all_to_grid(components, placement_grid)
    /\ ret' = Returned("snap_all_to_grid", <<>>, "")
    /\ routes' = <<>>
    /\ UNCHANGED <<placement_grid, constraints, nets, pc, spacing,
                 rules, violations, value>>

\* Placement.auto_place
AutoPlace(sp) ==
    /\ pc = "idle"
    /\ components' = auto_place(components, sp)
    /\ ret' = Returned("auto_place", <<>>, "")
    /\ routes' = <<>>
    /\ UNCHANGED <<placement_grid, constraints, nets, pc, spacing,
                 rules, violations, value>>

\* Placement.resolve_overlaps up to its loop: with nothing overlapping it
\* snaps and returns, otherwise it enters the loop
ResolveStart(sp) ==
    /\ pc = "idle"
    /\ IF check_overlaps(components) = <<>>
       THEN /\ components' = snap_all_to_grid(components, placement_grid)
            /\ ret' = Returned("resolve_overlaps", <<>>, "")
            /\ UNCHANGED <<pc, spacing>>
       ELSE /\ pc' = "resolving"
            /\ spacing' = sp
            /\ ret' = Returned("resolve_overlaps", <<>>, "running")
            /\ UNCHANGED components
    /\ routes' = <<>>
    /\ UNCHANGED <<placement_grid, constraints, nets,
                 rules, violations, value>>

\* One pass of the loop of resolve_overlaps; when no overlap is left the loop
\* ends, the components are snapped and the call returns
ResolveStep ==
    /\ pc = "resolving"
    /\ LET moved == ResolveOnce(components, spacing)
       IN  IF check_overlaps(moved) = <<>>
           THEN /\ components' = snap_all_to_grid(moved, placement_grid)
                /\ pc' = "idle"
                /\ spacing' = 0
                /\ ret' = Returned("resolve_overlaps", <<>>, "")
           ELSE /\ components' = moved
                /\ UNCHANGED <<pc, spacing, ret>>
    /\ routes' = <<>>
    /\ UNCHANGED <<placement_grid, constraints, nets,
                 rules, violations, value>>

\* Placement.move_component
MoveComponent(component_name, new_position) ==
    /\ pc = "idle"
    /\ LET r == move_component(components, constraints, placement_grid,
                               component_name, new_position)
       IN  /\ components' = r.components
           /\ ret' = Returned("move_component", component_name, r.err)
    /\ routes' = <<>>
    /\ UNCHANGED <<placement_grid, constraints, nets, pc, spacing,
                 rules, violations, value>>

\* Placement.add_constraint: the bounds are stored before the position is
\* checked (by move_component, to where the component already is)
AddConstraint(component, given) ==
    /\ pc = "idle"
    /\ IF FindComponent(components, component) = 0
       THEN /\ ret' = Returned("add_constraint", component, "ComponentNotFound")
            /\ UNCHANGED <<components, constraints>>
       ELSE LET stored == StoreConstraint(constraints, component, given)
                current_pos == components[FindComponent(components, component)].position
                r == move_component(components, stored, placement_grid,
                                    component, current_pos)
            IN  /\ constraints' = stored
                /\ components' = r.components
                /\ ret' = Returned("add_constraint", component, r.err)
    /\ routes' = <<>>
    /\ UNCHANGED <<placement_grid, nets, pc, spacing,
                 rules, violations, value>>

\* NetManager.add_connection
AddConnection(from_port, to_port, width, layer) ==
    /\ pc = "idle"
    /\ LET r == add_connection(nets, components, from_port, to_port, width, layer)
       IN  /\ Len(r.nets) <= MaxNets
           /\ nets' = r.nets
           /\ ret' = Returned("add_connection", from_port, r.err)
    /\ routes' = <<>>
    /\ UNCHANGED <<components, placement_grid, constraints, pc, spacing,
                 rules, violations, value>>

\* NetManager.generate_routing; a call that raises returns no list
GenerateRouting(routing_strategy) ==
    /\ pc = "idle"
    /\ LET r == generate_routing(nets, components, routing_strategy)
       IN  /\ routes' = r.routes
           /\ ret' = Returned("generate_routing", <<routing_strategy>>, r.err)
    /\ UNCHANGED <<components, placement_grid, constraints, nets, pc, spacing,
                 rules, violations, value>>

\* Router.route
RouterRoute(from_pos, to_pos, width, layer, strategy) ==
    /\ pc = "idle"
    /\ LET r == route(from_pos, to_pos, width, layer, strategy)
       IN  /\ routes' = r.routes
           /\ ret' = Returned("route",
                              [strategy |-> strategy, from_pos |-> from_pos,
                               to_pos |-> to_pos, width |-> width, layer |-> layer],
                              r.err)
    /\ UNCHANGED <<components, placement_grid, constraints, nets, pc, spacing,
                   rules, violations, value>>

\* Router.route_differential_pair
RouteDifferentialPair(ends, width, sp, layer) ==
    /\ pc = "idle"
    /\ routes' = route_differential_pair(ends.from_pos1, ends.from_pos2,
                                         ends.to_pos1, ends.to_pos2,
                                         width, sp, layer)
    /\ ret' = Returned("route_differential_pair",
                       [ends |-> ends, width |-> width, layer |-> layer], "")
    /\ UNCHANGED <<components, placement_grid, constraints, nets, pc, spacing,
                   rules, violations, value>>

\* RFLayout.route_connections on the connections given; a call that raises
\* returns no list
RouteConnections(connections) ==
    /\ pc = "idle"
    /\ LET r == route_connections(components, connections)
       IN  /\ routes' = r.routes
           /\ ret' = Returned("route_connections", connections, r.err)
    /\ UNCHANGED <<components, placement_grid, constraints, nets, pc, spacing,
                   rules, violations, value>>

\* DRCChecker.run_all_checks on the components and the routes given; a call
\* that raises returns no list
RunAllChecks(rts) ==
    /\ pc = "idle"
    /\ LET r == run_all_checks(components, rts, rules)
       IN  /\ violations' = r.violations
           /\ ret' = Returned("run_all_checks", rts, r.err)
    /\ UNCHANGED <<components, placement_grid, constraints, nets, routes, pc, spacing,
                   rules, value>>

\* checker.check_spacing(components, layer)
CheckSpacing(layer) ==
    /\ pc = "idle"
    /\ LET r == check_spacing(components, rules, layer)
       IN  /\ violations' = r.violations
           /\ ret' = Returned("check_spacing", <<layer>>, r.err)
    /\ UNCHANGED <<components, placement_grid, constraints, nets, routes, pc, spacing,
                   rules, value>>

\* checker.check_width(components, layer)
CheckWidth(layer) ==
    /\ pc = "idle"
    /\ LET r == check_width(components, rules, layer)
       IN  /\ violations' = r.violations
           /\ ret' = Returned("check_width", <<layer>>, r.err)
    /\ UNCHANGED <<components, placement_grid, constraints, nets, routes, pc, spacing,
                   rules, value>>

\* component.orientation = orientation, the assignment the callers and the
\* tests make
SetOrientation(i, orientation) ==
    /\ pc = "idle"
    /\ components' = [components EXCEPT ![i].orientation = orientation]
    /\ ret' = Returned("set_orientation", components[i].name, "")
    /\ value' = <<>>
    /\ UNCHANGED <<placement_grid, constraints, nets, routes, pc, spacing,
                   rules, violations>>

\* Component.get_port_position on the i-th component
GetPortPosition(i, port_name) ==
    /\ pc = "idle"
    /\ IF port_name \notin DOMAIN components[i].ports
       THEN /\ value' = <<>>
            /\ ret' = Returned("get_port_position", <<i, port_name>>, "UnknownPort")
       ELSE /\ value' = get_port_position(components[i], port_name)
            /\ ret' = Returned("get_port_position", <<i, port_name>>, "")
    /\ UNCHANGED <<components, placement_grid, constraints, nets, routes, pc, spacing,
                   rules, violations>>

\* get_bounding_box on the i-th component
GetBoundingBox(i) ==
    /\ pc = "idle"
    /\ value' = get_bounding_box(components[i])
    /\ ret' = Returned("get_bounding_box", <<i>>, "")
    /\ UNCHANGED <<components, placement_grid, constraints, nets, routes, pc, spacing,
                   rules, violations>>

\* The calls on the placement engine
Next ==
    \/ \E g \in GridSizes, o \in GridOrigins : SetGrid(g, o)
    \/ \E i \in 1..Len(components) : SnapToGrid(i)
    \/ SnapAllToGrid
    \/ \E sp \in Spacings : AutoPlace(sp)
    \/ \E sp \in Spacings : ResolveStart(sp)
    \/ ResolveStep
    \/ \E n \in MoveNames, p \in MoveTargets : MoveComponent(n, p)
    \/ \E n \in ConstraintNames, b \in BoundsGiven : AddConstraint(n, b)

Spec == Init /\ [][Next]_vars

\* The calls on the net manager, between calls on the placement engine that
\* move the components the nets refer to
NetNext ==
    \/ \E f \in FromSpecs, t \in ToSpecs, w \in Widths, l \in Layers :
           AddConnection(f, t, w, l)
    \/ \E st \in Strategies : GenerateRouting(st)
    \/ \E g \in GridSizes, o \in GridOrigins : SetGrid(g, o)
    \/ SnapAllToGrid
    \/ \E sp \in Spacings : AutoPlace(sp)
    \/ \E sp \in Spacings : ResolveStart(sp)
    \/ ResolveStep
    \/ \E p \in NetMoveTargets : MoveComponent(M1, p)

NetSpec == Init /\ [][NetNext]_vars

\* The two places that build routes: the net manager, on the nets added and
\* the components where move_component has put them, and the router, on the
\* end points it is given
RouterNext ==
    \/ \E t \in ToSpecs, w \in Widths, l \in Layers :
           AddConnection(PortSpec(M1, <<"drain">>), t, w, l)
    \/ \E st \in Strategies : GenerateRouting(st)
    \/ \E p \in NetMoveTargets : MoveComponent(M1, p)
    \/ \E a \in RoutePoints, b \in RoutePoints, w \in Widths, l \in RouteLayers,
          st \in Strategies : RouterRoute(a, b, w, l, st)
    \/ \E e \in DiffPairs, w \in Widths, sp \in Spacings, l \in RouteLayers :
           RouteDifferentialPair(e, w, sp, l)

RouterSpec == Init /\ [][RouterNext]_vars

\* The rule checker, built on one of the rule tables, on components that
\* move_component moves between the checks
DrcInit ==
    /\ \E w \in DrcWidths, l \in {"metal1", "poly"} : components = DrcDesign(w, l)
    /\ rules \in RuleTables
    /\ placement_grid = <<>>
    /\ constraints = EmptyDict
    /\ nets = <<>>
    /\ routes = <<>>
    /\ pc = "idle"
    /\ spacing = 0
    /\ ret = Returned("init", <<>>, "")
    /\ violations = <<>>
    /\ value = <<>>

DrcNext ==
    \/ \E p \in DrcTargets : MoveComponent(R2, p)
    \/ \E rts \in RouteLists : RunAllChecks(rts)
    \/ \E l \in DrcLayers : CheckSpacing(l)
    \/ \E l \in DrcLayers : CheckWidth(l)

DrcSpec == DrcInit /\ [][DrcNext]_vars

\* The queries on the components of each variant, turned between the queries
GeomInit ==
    /\ components = GeomDesign
    /\ placement_grid = <<>>
    /\ constraints = EmptyDict
    /\ nets = <<>>
    /\ routes = <<>>
    /\ pc = "idle"
    /\ spacing = 0
    /\ ret = Returned("init", <<>>, "")
    /\ rules = <<>>
    /\ violations = <<>>
    /\ value = <<>>

GeomNext ==
    \/ \E i \in 1..Len(components), o \in Orientations : SetOrientation(i, o)
    \/ \E i \in 1..Len(components), n \in PortNames : GetPortPosition(i, n)
    \/ \E i \in 1..Len(components) : GetBoundingBox(i)

GeomSpec == GeomInit /\ [][GeomNext]_vars

\* The calls of the three classes that are handed the list of components: the
\* placement engine, the net manager and the rule checker (with no rules
\* given, on the routes generated last)
FrameNext ==
    \/ \E g \in GridSizes, o \in GridOrigins : SetGrid(g, o)
    \/ SnapToGrid(2)
    \/ SnapAllToGrid
    \/ \E sp \in Spacings : AutoPlace(sp)
    \/ \E sp \in Spacings : ResolveStart(sp)
    \/ ResolveStep
    \/ \E p \in NetMoveTargets : MoveComponent(M1, p)
    \/ \E b \in BoundsGiven : AddConstraint(M1, b)
    \/ AddConnection(PortSpec(M1, <<"drain">>), PortSpec(R1, <<"port1">>), 1, "metal1")
    \/ GenerateRouting("manhattan")
    \/ RunAllChecks(routes)

FrameSpec == Init /\ [][FrameNext]_vars

\* The calls on the placement engine that succeed: a call of move_component
\* or add_constraint that raises is left out
OkNext ==
    \/ \E g \in GridSizes, o \in GridOrigins : SetGrid(g, o)
    \/ \E i \in 1..Len(components) : SnapToGrid(i)
    \/ SnapAllToGrid
    \/ \E sp \in Spacings : AutoPlace(sp)
    \/ \E sp \in Spacings : ResolveStart(sp)
    \/ ResolveStep
    \/ \E n \in MoveNames, p \in MoveTargets : MoveComponent(n, p) /\ ret'.err = ""
    \/ \E n \in ConstraintNames, b \in BoundsGiven : AddConstraint(n, b) /\ ret'.err = ""

OkSpec == Init /\ [][OkNext]_vars

\* auto_place on lists of components of every type, without a grid
PlaceInit ==
    /\ components \in PlaceLists
    /\ placement_grid = <<>>
    /\ constraints = EmptyDict
    /\ nets = <<>>
    /\ routes = <<>>
    /\ pc = "idle"
    /\ spacing = 0
    /\ ret = Returned("init", <<>>, "")
    /\ rules = <<>>
    /\ violations = <<>>
    /\ value = <<>>

PlaceNext == \E sp \in PlaceSpacings : AutoPlace(sp)

PlaceSpec == PlaceInit /\ [][PlaceNext]_vars

\* route_connections on the connections of a design, between moves of M1
ConnNext ==
    \/ \E cs \in ConnectionLists : RouteConnections(cs)
    \/ \E p \in NetMoveTargets : MoveComponent(M1, p)

ConnSpec == Init /\ [][ConnNext]_vars

\* The net manager on the design with four components
KeyInit ==
    /\ components = KeyDesign
    /\ placement_grid = <<>>
    /\ constraints = EmptyDict
    /\ nets = <<>>
    /\ routes = <<>>
    /\ pc = "idle"
    /\ spacing = 0
    /\ ret = Returned("init", <<>>, "")
    /\ rules = <<>>
    /\ violations = <<>>
    /\ value = <<>>

KeyNext ==
    \/ \E f \in KeyFromSpecs, t \in KeyToSpecs, w \in Widths, l \in KeyLayers :
           AddConnection(f, t, w, l)
    \/ \E st \in {"manhattan", "direct"} : GenerateRouting(st)

KeySpec == KeyInit /\ [][KeyNext]_vars

\* The calls that move components and resolve overlaps, without a grid.  Once
\* resolve_overlaps is in its loop the next pass is taken: the program has one
\* thread and nothing else to run.
ResolveNext ==
    \/ \E sp \in Spacings : ResolveStart(sp)
    \/ ResolveStep
    \/ \E n \in MoveNames, p \in MoveTargets : MoveComponent(n, p)
    \/ \E sp \in Spacings : AutoPlace(sp)

FairSpec == Init /\ [][ResolveNext]_vars /\ WF_vars(ResolveStep)

\* Grid snapping on its own: M1 is anywhere in a square around the origin, one
\* grid of the sizes and origins below is set, and components are snapped
\* (with the grid changed between snaps the positions wander without bound)
SnapCoords == (-MaxCoord)..MaxCoord

SnapSizes == 1..MaxGridSize

SnapOrigins == {<<0, 0>>, <<1, 1>>, <<-1, 2>>}

SnapInit ==
    /\ \E p \in SnapCoords \X SnapCoords :
           components = [Design EXCEPT ![2].position = p]
    /\ placement_grid = <<>>
    /\ constraints = EmptyDict
    /\ nets = <<>>
    /\ routes = <<>>
    /\ pc = "idle"
    /\ spacing = 0
    /\ ret = Returned("init", <<>>, "")
    /\ rules = <<>>
    /\ violations = <<>>
    /\ value = <<>>

SnapNext ==
    \/ \E g \in SnapSizes, o \in SnapOrigins : placement_grid = <<>> /\ SetGrid(g, o)
    \/ \E i \in 1..Len(components) : SnapToGrid(i)
    \/ SnapAllToGrid

SnapSpec == SnapInit /\ [][SnapNext]_vars

---------------------------------------------------------------------------
(* Properties of the placement engine *)

BoundKeys == {"min_x", "max_x", "min_y", "max_y"}

\* A position below a configured min or above a configured max of the
\* constraint c, on either axis
OutsideBounds(c, p) ==
    \E k \in DOMAIN c :
        \/ k = "min_x" /\ p[1] < c[k]
        \/ k = "max_x" /\ p[1] > c[k]
        \/ k = "min_y" /\ p[2] < c[k]
        \/ k = "max_y" /\ p[2] > c[k]

\* C1: move_component on a component that has a constraint, to a position
\* below a configured min or above a configured max on either axis, fails with
\* ConstraintViolation and changes neither a component nor the grid nor the
\* constraint map.
C1_RejectedMoveChangesNothing ==
    [][\A n \in MoveNames, p \in MoveTargets :
          ( /\ FindComponent(components, n) # 0
            /\ n \in DOMAIN constraints
            /\ OutsideBounds(constraints[n], p)
            /\ MoveComponent(n, p) )
          => ( /\ ret'.err = "ConstraintViolation"
               /\ components' = components
               /\ placement_grid' = placement_grid
               /\ constraints' = constraints )]_vars

\* A move of the constrained M1 was rejected, M1 being inside its bounds
C1_Witness ==
    /\ ret = Returned("move_component", M1, "ConstraintViolation")
    /\ M1 \in DOMAIN constraints
    /\ ~OutsideBounds(constraints[M1], components[2].position)

\* C6: add_constraint on a known component stores, for each of the four
\* bounds, the value given when one is given and the stored value (or none)
\* otherwise, leaves the constraints of the other components alone, and fails
\* with ConstraintViolation exactly when the component's position is outside
\* the merged constraint.
C6_AddConstraintMerges ==
    [][\A n \in ConstraintNames, b \in BoundsGiven :
          (FindComponent(components, n) # 0 /\ AddConstraint(n, b))
          => LET old == ConstraintsOf(constraints, n)
                 pos == components[FindComponent(components, n)].position
             IN  /\ n \in DOMAIN constraints'
                 /\ \A k \in BoundKeys :
                       IF k \in DOMAIN b
                       THEN k \in DOMAIN constraints'[n] /\ constraints'[n][k] = b[k]
                       ELSE IF k \in DOMAIN old
                       THEN k \in DOMAIN constraints'[n] /\ constraints'[n][k] = old[k]
                       ELSE k \notin DOMAIN constraints'[n]
                 /\ \A m \in DOMAIN constraints' \ {n} :
                       m \in DOMAIN constraints /\ constraints'[m] = constraints[m]
                 /\ (ret'.err = "ConstraintViolation")
                       <=> OutsideBounds(constraints'[n], pos)
                 /\ ret'.err \in {"", "ConstraintViolation"}]_vars

\* After add_constraint(min 0, max 10 on both axes) and add_constraint(max_x
\* = 5): max_x is the later value, the other three bounds are still in force
C6_Witness ==
    /\ ret = Returned("add_constraint", M1, "")
    /\ M1 \in DOMAIN constraints
    /\ constraints[M1] =
          ("min_x" :> 0) @@ ("max_x" :> 5) @@ ("min_y" :> 0) @@ ("max_y" :> 10)

\* The extent of the intersection of two boxes on axis a (1 for x, 2 for y);
\* positive when they overlap there, 0 when they touch, negative for a gap
Extent(bbox1, bbox2, a) ==
    Min2(bbox1[2][a], bbox2[2][a]) - Max2(bbox1[1][a], bbox2[1][a])

\* The unordered pairs of names check_overlaps reports on a list
ReportedNames(comps) ==
    LET ov == check_overlaps(comps)
    IN  {{comps[ov[k][1]].name, comps[ov[k][2]].name} : k \in 1..Len(ov)}

\* The list in another order
Reordered(comps, perm) == [i \in 1..Len(comps) |-> comps[perm[i]]]

\* C7: check_overlaps reports every unordered pair of components whose boxes
\* overlap exactly once and no other pair, and the pairs reported are the same
\* for every order of the component list.
C7_OverlapPairsOnceAnyOrder ==
    LET ov == check_overlaps(components)
        n == Len(components)
    IN  /\ \A k \in 1..Len(ov) :
              /\ ov[k][1] # ov[k][2]
              /\ \A m \in 1..Len(ov) :
                    {ov[m][1], ov[m][2]} = {ov[k][1], ov[k][2]} => m = k
        /\ \A i \in 1..n, j \in 1..n :
              i # j =>
                 ( (\E k \in 1..Len(ov) : {ov[k][1], ov[k][2]} = {i, j})
                   <=> ( /\ Extent(get_bounding_box(components[i]),
                                   get_bounding_box(components[j]), 1) > 0
                         /\ Extent(get_bounding_box(components[i]),
                                   get_bounding_box(components[j]), 2) > 0 ) )
        /\ \A perm \in Permutations(1..n) :
              ReportedNames(Reordered(components, perm)) = ReportedNames(components)

\* Two pairs overlap and the third does not
C7_Witness ==
    /\ Len(check_overlaps(components)) = 2
    /\ pc = "idle"

\* C8: a pair is reported only when the boxes overlap by a positive extent on
\* both axes; a pair whose boxes only touch (extent 0 on an axis) or are apart
\* is not reported.
C8_OverlapIsStrict ==
    LET ov == check_overlaps(components)
    IN  /\ \A k \in 1..Len(ov) :
              /\ Extent(get_bounding_box(components[ov[k][1]]),
                        get_bounding_box(components[ov[k][2]]), 1) >= 1
              /\ Extent(get_bounding_box(components[ov[k][1]]),
                        get_bounding_box(components[ov[k][2]]), 2) >= 1
        /\ \A i \in 1..Len(components), j \in 1..Len(components) :
              ( /\ i < j
                /\ \/ Extent(get_bounding_box(components[i]),
                             get_bounding_box(components[j]), 1) <= 0
                   \/ Extent(get_bounding_box(components[i]),
                             get_bounding_box(components[j]), 2) <= 0 )
              => \A k \in 1..Len(ov) : ov[k] # <<i, j>>

\* R1 and R2 share an edge (extent 0 on x, positive on y) and are not reported
C8_Witness ==
    /\ Extent(get_bounding_box(components[1]), get_bounding_box(components[3]), 1) = 0
    /\ Extent(get_bounding_box(components[1]), get_bounding_box(components[3]), 2) > 0
    /\ \A k \in 1..Len(check_overlaps(components)) :
          check_overlaps(components)[k] # <<1, 3>>

\* C2: a call of resolve_overlaps that finds overlaps ends, and ends in a state
\* where check_overlaps() is empty.
C2_ResolveEndsWithoutOverlap ==
    [](pc = "resolving"
         => <>( /\ pc = "idle"
                /\ ret.op = "resolve_overlaps"
                /\ check_overlaps(components) = <<>> ))

\* A position on the grid: each axis is origin + k * size for an integer k
OnGrid(position, grid) ==
    /\ (position[1] - grid[1].origin[1]) % grid[1].size = 0
    /\ (position[2] - grid[1].origin[2]) % grid[1].size = 0

\* C9: snap_to_grid leaves a component whose position is on the grid as it is,
\* and snapping the result of a snap again changes nothing.
C9_SnapIdempotent ==
    \A i \in 1..Len(components) :
        LET once == snap_to_grid(components[i], placement_grid)
        IN  /\ snap_to_grid(once, placement_grid) = once
            /\ (Len(placement_grid) = 1 /\ OnGrid(components[i].position, placement_grid))
                  => once = components[i]

\* All three components were snapped onto a grid that is not the unit grid
C9_Witness ==
    /\ ret.op = "snap_all_to_grid"
    /\ Len(placement_grid) = 1
    /\ placement_grid[1].size > 1
    /\ \A i \in 1..Len(components) : OnGrid(components[i].position, placement_grid)

\* What C10 says of one component a snap call was applied to
SnappedNearest(before, after, grid) ==
    IF Len(grid) = 0 THEN after = before
    ELSE /\ OnGrid(after.position, grid)
         /\ 2 * Abs(after.position[1] - before.position[1]) <= grid[1].size
         /\ 2 * Abs(after.position[2] - before.position[2]) <= grid[1].size
         /\ after = [before EXCEPT !.position = after.position]

\* C10: with a grid set, snap_to_grid and snap_all_to_grid put each axis of the
\* position at origin + k * size, at a distance of at most size / 2 from where
\* it was (so on a nearest grid coordinate, a tie included); snap_to_grid
\* touches no other component; without a grid no component changes.
C10_SnapToNearestGridPoint ==
    [][ /\ \A i \in 1..Len(components) :
              SnapToGrid(i) =>
                 /\ SnappedNearest(components[i], components'[i], placement_grid)
                 /\ \A j \in 1..Len(components) :
                       j # i => components'[j] = components[j]
        /\ SnapAllToGrid =>
              /\ Len(components') = Len(components)
              /\ \A i \in 1..Len(components) :
                    SnappedNearest(components[i], components'[i], placement_grid) ]_vars

\* R1, built at <<0, 0>>, was snapped onto the grid of size 2 and origin
\* <<1, 1>>, half a cell away on both axes
C10_Witness ==
    /\ ret = Returned("snap_to_grid", R1, "")
    /\ placement_grid = <<[size |-> 2, origin |-> <<1, 1>>]>>
    /\ components[1].position \in {<<-1, -1>>, <<-1, 1>>, <<1, -1>>, <<1, 1>>}

---------------------------------------------------------------------------
(* Properties of the net manager *)

\* The component and the port a "component.port" specification names, when
\* the component is in the list
SpecComponent(comps, port_spec) == comps[FindComponent(comps, Split(port_spec, Dot)[1])]

SpecPort(port_spec) == Split(port_spec, Dot)[2]

\* C3: every net in the map refers to ports that its endpoint components have,
\* and an add_connection naming a port its component does not have fails.
C3_NetsReferToExistingPorts ==
    /\ \A k \in 1..Len(nets) :
          /\ nets[k].from.port \in DOMAIN components[nets[k].from.component].ports
          /\ nets[k].to.port \in DOMAIN components[nets[k].to.component].ports
    /\ (ret.op = "add_connection" /\ ret.target = PortSpec(M1, <<"invalid_port">>))
          => ret.err = "UnknownPort"

\* The two "component.port" specifications of a net id
NetSpecs(id) ==
    LET k == CHOOSE k \in 1..Len(id) : id[k] = "_to_"
    IN  <<SubSeq(id, 1, k - 1), SubSeq(id, k + 1, Len(id))>>

\* C4: with one net in the map, between ports that exist, generate_routing
\* ("direct" or "manhattan") succeeds and returns exactly one route, which
\* starts at the position of the port named first in add_connection and ends
\* at the position of the port named second.
C4_OneNetOneRoute ==
    ( /\ ret.op = "generate_routing"
      /\ ret.target \in {<<"direct">>, <<"manhattan">>}
      /\ Len(nets) = 1
      /\ SpecPort(NetSpecs(nets[1].id)[1])
            \in DOMAIN SpecComponent(components, NetSpecs(nets[1].id)[1]).ports
      /\ SpecPort(NetSpecs(nets[1].id)[2])
            \in DOMAIN SpecComponent(components, NetSpecs(nets[1].id)[2]).ports )
    => /\ ret.err = ""
       /\ Len(routes) = 1
       /\ routes[1].points[1] =
             get_port_position(SpecComponent(components, NetSpecs(nets[1].id)[1]),
                               SpecPort(NetSpecs(nets[1].id)[1]))
       /\ routes[1].points[Len(routes[1].points)] =
             get_port_position(SpecComponent(components, NetSpecs(nets[1].id)[2]),
                               SpecPort(NetSpecs(nets[1].id)[2]))
       /\ Len(routes[1].points) = IF ret.target = <<"direct">> THEN 2 ELSE 3

\* generate_routing("direct") returned the one route of M1.drain to R1.port1
C4_Witness ==
    /\ ret = Returned("generate_routing", <<"direct">>, "")
    /\ Len(nets) = 1
    /\ nets[1].id = NetId(PortSpec(M1, <<"drain">>), PortSpec(R1, <<"port1">>))
    /\ Len(routes) = 1

\* C5: the routes generate_routing returns, one per net, start and end at the
\* port positions that follow from the components' positions at the time of
\* that call, whatever the positions were when the nets were added.
C5_RoutesFollowCurrentPositions ==
    (ret.op = "generate_routing" /\ ret.err = "")
    => /\ Len(routes) = Len(nets)
       /\ \A k \in 1..Len(nets) :
             /\ routes[k].points[1] =
                   get_port_position(components[nets[k].from.component], nets[k].from.port)
             /\ routes[k].points[Len(routes[k].points)] =
                   get_port_position(components[nets[k].to.component], nets[k].to.port)

\* Routes were generated after M1 and R2, the ends of a net, had been moved
\* from where they were built
C5_Witness ==
    /\ ret.op = "generate_routing"
    /\ ret.err = ""
    /\ \E k \in 1..Len(nets) : nets[k].from.component = 2 /\ nets[k].to.component = 3
    /\ Len(routes) = Len(nets)
    /\ components[2].position # Design[2].position
    /\ components[3].position # Design[3].position

\* The strategies the routing engine is specified to support
SupportedStrategies == {"direct", "manhattan", "optimize"}

\* C11: generate_routing with a strategy name outside the supported set fails
\* with UnsupportedStrategy and returns no routes, whatever the net map holds,
\* the empty map included.
C11_UnknownStrategyFails ==
    (ret.op = "generate_routing" /\ ret.target[1] \notin SupportedStrategies)
    => (ret.err = "UnsupportedStrategy" /\ routes = <<>>)

\* Every net refers to ports its components have
NetsHavePorts ==
    \A k \in 1..Len(nets) :
        /\ nets[k].from.port \in DOMAIN components[nets[k].from.component].ports
        /\ nets[k].to.port \in DOMAIN components[nets[k].to.component].ports

\* C12: generate_routing("optimize") returns one route per net, of exactly 4
\* waypoints, from the net's source port position to its destination port
\* position, the two middle waypoints on the y-coordinate of the midpoint of
\* the two.
C12_OptimizeRoutesEveryNet ==
    (ret.op = "generate_routing" /\ ret.target = <<"optimize">> /\ NetsHavePorts)
    => /\ ret.err = ""
       /\ Len(routes) = Len(nets)
       /\ \A k \in 1..Len(nets) :
             LET from_pos == get_port_position(components[nets[k].from.component],
                                               nets[k].from.port)
                 to_pos == get_port_position(components[nets[k].to.component],
                                             nets[k].to.port)
             IN  /\ Len(routes[k].points) = 4
                 /\ routes[k].points[1] = from_pos
                 /\ routes[k].points[4] = to_pos
                 /\ 2 * routes[k].points[2][2] = from_pos[2] + to_pos[2]
                 /\ 2 * routes[k].points[3][2] = from_pos[2] + to_pos[2]

\* The L-shaped path of C13 between two positions
LPath(p1, p2) == <<p1, <<p2[1], p1[2]>>, p2>>

\* C13: the manhattan strategy gives exactly the waypoints (x1,y1), (x2,y1),
\* (x2,y2), first along x at the source's y and then along y at the
\* destination's x, in generate_routing on every net and in Router.route on
\* the end points given; on the same end points the net manager's and the
\* router's manhattan routes have the same waypoints.
C13_ManhattanIsLShaped ==
    /\ (ret.op = "generate_routing" /\ ret.target = <<"manhattan">> /\ ret.err = "")
          => /\ Len(routes) = Len(nets)
             /\ \A k \in 1..Len(nets) :
                   LET from_pos == get_port_position(components[nets[k].from.component],
                                                     nets[k].from.port)
                       to_pos == get_port_position(components[nets[k].to.component],
                                                   nets[k].to.port)
                   IN  /\ routes[k].points = LPath(from_pos, to_pos)
                       /\ router_manhattan_route(from_pos, to_pos, nets[k].width,
                                                 nets[k].layer).points = routes[k].points
    /\ (ret.op = "route" /\ ret.target.strategy = "manhattan")
          => /\ ret.err = ""
             /\ Len(routes) = 1
             /\ routes[1].points = LPath(ret.target.from_pos, ret.target.to_pos)
             /\ manhattan_route(ret.target.from_pos, ret.target.to_pos,
                                ret.target.width, ret.target.layer).points
                   = routes[1].points

\* generate_routing("manhattan") returned the route of a net whose ends differ
\* on both axes
C13_Witness ==
    /\ ret = Returned("generate_routing", <<"manhattan">>, "")
    /\ Len(routes) >= 1
    /\ routes[1].points[1][1] # routes[1].points[3][1]
    /\ routes[1].points[1][2] # routes[1].points[3][2]

---------------------------------------------------------------------------
(* Properties of the rule checker *)

\* The smaller of the two distances between the edges of two boxes on axis a
EdgeGap(bbox1, bbox2, a) ==
    Min2(Abs(bbox1[1][a] - bbox2[2][a]), Abs(bbox1[2][a] - bbox2[1][a]))

\* The minimum axis-aligned gap between two boxes: the smaller of the x-gap and
\* the y-gap
MinGap(bbox1, bbox2) == Min2(EdgeGap(bbox1, bbox2, 1), EdgeGap(bbox1, bbox2, 2))

\* The indexes of the spacing violations in a list that name the two components
SpacingViolationsOf(vs, name1, name2) ==
    {k \in 1..Len(vs) :
        /\ "component1" \in DOMAIN vs[k]
        /\ {vs[k].component1, vs[k].component2} = {name1, name2}
        /\ "value" \in DOMAIN vs[k]}

\* C14: for every pair of components tagged with the same layer L that has a
\* rule layer_L_min_spacing, the checker reports exactly one spacing
\* violation naming the two, with the minimum axis-aligned gap of their boxes
\* as the value and the rule as the limit, when the gap is below the rule, and
\* none when it is not.
C14_SpacingAgainstLayerRule ==
    (ret.op = "run_all_checks" /\ ret.err = "")
    => \A i \in 1..Len(components), j \in 1..Len(components) :
          ( /\ i < j
            /\ HasLayer(components[i]) /\ HasLayer(components[j])
            /\ components[i].layer = components[j].layer
            /\ RuleGet(rules, MinSpacingKey(<<components[i].layer>>)) # <<>> )
          => LET limit == RuleGet(rules, MinSpacingKey(<<components[i].layer>>))[1].num
                 gap == MinGap(get_bounding_box(components[i]),
                               get_bounding_box(components[j]))
                 found == SpacingViolationsOf(violations, components[i].name,
                                              components[j].name)
             IN  IF gap < limit
                 THEN /\ Cardinality(found) = 1
                      /\ \A k \in found :
                            violations[k].value = gap /\ violations[k].limit = limit
                 ELSE found = {}

\* A layer has a spacing rule in the table
HasSpacingRule(rls, layer) == RuleGet(rls, MinSpacingKey(<<layer>>)) # <<>>

\* C15: check_spacing(components, layer) fails with NoRuleForLayer when the
\* table has no spacing rule for the layer, and returns a list without an
\* error when it has one.
C15_CheckSpacingNeedsRule ==
    (ret.op = "check_spacing")
    => ret.err = (IF HasSpacingRule(rules, ret.target[1]) THEN "" ELSE "NoRuleForLayer")

\* The indexes of the width violations in a list under the width rule of a layer
WidthViolationsOf(vs, layer) ==
    {k \in 1..Len(vs) :
        /\ "component" \in DOMAIN vs[k]
        /\ vs[k].rule = MinWidthKey(<<layer>>)}

\* What C16 says of a list of violations
WidthViolationsRight(vs) ==
    \A layer \in DrcLayers :
        RuleGet(rules, MinWidthKey(<<layer>>)) # <<>>
        => LET limit == RuleGet(rules, MinWidthKey(<<layer>>))[1].num
           IN  /\ \A i \in 1..Len(components) :
                     LET mine == {k \in WidthViolationsOf(vs, layer) :
                                     vs[k].component = components[i].name}
                     IN  IF components[i].layer = layer /\ components[i].width < limit
                         THEN /\ Cardinality(mine) = 1
                              /\ \A k \in mine : /\ vs[k].value = components[i].width
                                                  /\ vs[k].limit = limit
                         ELSE mine = {}
               /\ \A k \in WidthViolationsOf(vs, layer) :
                     \E i \in 1..Len(components) : vs[k].component = components[i].name

\* C16: for a layer L with a width rule, the checker reports a width violation
\* with the name, the width and the limit for exactly the components tagged
\* with L whose width is strictly below the rule, in the component check and in
\* the list run_all_checks returns.
C16_WidthBelowRule ==
    /\ WidthViolationsRight(check_components(components, rules))
    /\ (ret.op = "run_all_checks" /\ ret.err = "") => WidthViolationsRight(violations)

\* run_all_checks, with the width rule 10 for metal1, reported R2 (on metal1,
\* width 8) and not M1 (on metal1, width 10, at the limit)
C16_Witness ==
    /\ ret.op = "run_all_checks"
    /\ ret.err = ""
    /\ RuleGet(rules, MinWidthKey(<<"metal1">>)) = <<[num |-> 10]>>
    /\ components[3].layer = "metal1"
    /\ components[3].width = 8
    /\ \E k \in WidthViolationsOf(violations, "metal1") : violations[k].component = R2
    /\ \A k \in WidthViolationsOf(violations, "metal1") : violations[k].component # M1

\* C17: run_all_checks returns a list of violations, whatever the rule table,
\* the components and the routes are; a route whose layer has no width rule
\* adds no violation.
C17_RunAllChecksNeverFails ==
    (ret.op = "run_all_checks")
    => /\ ret.err = ""
       /\ \A k \in 1..Len(violations) :
             "route" \in DOMAIN violations[k]
             => RuleGet(rules, violations[k].rule) # <<>>

\* The fields of a violation that name what offends
EntityFields == {"component", "component1", "component2", "route"}

\* C18: every violation record the checker returns carries the name or names
\* of what offends, the rule, the measured value, the limit and a message.
C18_ViolationsAreComplete ==
    \A k \in 1..Len(violations) :
        /\ DOMAIN violations[k] \cap EntityFields # {}
        /\ {"rule", "value", "limit", "message"} \subseteq DOMAIN violations[k]

---------------------------------------------------------------------------
(* Properties of the component model *)

\* What C19 says the offset <<dx, dy>> contributes at an orientation
Turned(orientation, dx, dy) ==
    IF orientation = 0 THEN <<dx, dy>>
    ELSE IF orientation = 90 THEN <<-dy, dx>>
    ELSE IF orientation = 180 THEN <<-dx, -dy>>
    ELSE <<dy, -dx>>

Corners(bbox) ==
    { <<bbox[1][1], bbox[1][2]>>, <<bbox[2][1], bbox[1][2]>>,
      <<bbox[1][1], bbox[2][2]>>, <<bbox[2][1], bbox[2][2]>> }

\* A point turned about a centre by an orientation, counter-clockwise
TurnedAbout(centre, orientation, point) ==
    LET t == Turned(orientation, point[1] - centre[1], point[2] - centre[2])
    IN  <<centre[1] + t[1], centre[2] + t[2]>>

\* C20: the four corners of a component's unrotated footprint, turned about
\* its position by its orientation, lie inside the box get_bounding_box
\* returns, for every variant and orientation.
C20_BoundingBoxContainsRotatedFootprint ==
    (ret.op = "get_bounding_box")
    => LET c == components[ret.target[1]]
           footprint == get_bounding_box([c EXCEPT !.orientation = 0])
       IN  \A corner \in Corners(footprint) :
              LET q == TurnedAbout(c.position, c.orientation, corner)
              IN  /\ value[1][1] <= q[1] /\ q[1] <= value[2][1]
                  /\ value[1][2] <= q[2] /\ q[2] <= value[2][2]

---------------------------------------------------------------------------
(* Properties of the differential pair *)

\* The length of a path, the sum of the lengths of its segments
RECURSIVE PathLength(_)
PathLength(points) ==
    IF Len(points) < 2 THEN 0
    ELSE Distance(points[1], points[2]) + PathLength(Tail(points))

\* The ways to call one pairing of a call the nearer and the other the
\* farther: one way, or two when the distances are equal
PairingsOf(ends) ==
    LET one == <<ends.from_pos1, ends.to_pos1>>
        two == <<ends.from_pos2, ends.to_pos2>>
    IN  { pr \in {<<one, two>>, <<two, one>>} :
            Distance(pr[1][1], pr[1][2]) <= Distance(pr[2][1], pr[2][2]) }

\* The second route is a detour between the ends of the pairing far: four
\* waypoints, the two in between at the midpoint x and at the midpoint y plus
\* and minus one d >= 0
IsDetour(points, far) ==
    /\ Len(points) = 4
    /\ points[1] = far[1]
    /\ points[4] = far[2]
    /\ 2 * points[2][1] = far[1][1] + far[2][1]
    /\ points[3][1] = points[2][1]
    /\ points[2][2] + points[3][2] = far[1][2] + far[2][2]
    /\ points[2][2] >= points[3][2]

\* C21: route_differential_pair returns two routes.  The first is the
\* L-shaped route of the pairing with the smaller straight-line distance.  The
\* second has four waypoints, from one end of the other pairing to the other
\* end, the two in between at that pairing's midpoint x and at its midpoint
\* y plus d and minus d, and its total length approximates 1.5 times the
\* larger distance: it is off by at most half of that target.
C21_DifferentialPairLengthMatched ==
    ret.op = "route_differential_pair" =>
        /\ Len(routes) = 2
        /\ \E pr \in PairingsOf(ret.target.ends) :
               LET larger == Distance(pr[2][1], pr[2][2])
               IN  /\ routes[1].points = LPath(pr[1][1], pr[1][2])
                   /\ IsDetour(routes[2].points, pr[2])
                   /\ 2 * Abs(2 * PathLength(routes[2].points) - 3 * larger)
                          <= 3 * larger

---------------------------------------------------------------------------
(* Properties of the placement engine, continued *)

\* dx is v * m / sqrt(d2) to the nearest whole number, on the side of v
IsScaled(dx, v, m, d2) ==
    /\ dx = 0 \/ Sign(dx) = Sign(v)
    /\ dx = 0 \/ (2 * Abs(dx) - 1) * (2 * Abs(dx) - 1) * d2 <= 4 * v * v * m * m
    /\ Abs(dx) = m \/ (2 * Abs(dx) + 1) * (2 * Abs(dx) + 1) * d2 > 4 * v * v * m * m

\* The position q is p moved by m along the unit vector from a to b, along +x
\* when a and b coincide
MovedAlong(p, q, a, b, m) ==
    LET vx == b[1] - a[1]
        vy == b[2] - a[2]
        d2 == vx * vx + vy * vy
    IN  IF d2 = 0 THEN q = <<p[1] + m, p[2]>>
        ELSE /\ IsScaled(q[1] - p[1], vx, m, d2)
             /\ IsScaled(q[2] - p[2], vy, m, d2)

\* C22: a pass of the loop of resolve_overlaps takes the first pair (c1, c2)
\* of check_overlaps and changes nothing but the position of c2, which moves
\* by (max(w1, w2) + max(h1, h2)) / 2 + spacing along the unit vector from c1
\* to c2, along +x when the two positions coincide (the snap that ends the
\* call on a grid comes after the pass); without a grid the first component
\* of the list does not move during resolve_overlaps.
C22_ResolveMovesOnlySecond ==
    [][ /\ pc = "resolving" =>
            LET first == check_overlaps(components)[1]
                c1 == components[first[1]]
                c2 == components[first[2]]
                b1 == get_bounding_box(c1)
                b2 == get_bounding_box(c2)
                m == (Max2(BoxWidth(b1), BoxWidth(b2))
                        + Max2(BoxHeight(b1), BoxHeight(b2))) \div 2 + spacing
            IN  \E q \in {<<c2.position[1] + dx, c2.position[2] + dy>> :
                              dx \in (-m)..m, dy \in (-m)..m} :
                   /\ MovedAlong(c2.position, q, c1.position, c2.position, m)
                   /\ LET after == [components EXCEPT ![first[2]].position = q]
                      IN  components' = IF pc' = "idle"
                                        THEN snap_all_to_grid(after, placement_grid)
                                        ELSE after
        /\ (ret'.op = "resolve_overlaps" /\ placement_grid = <<>>)
              => components'[1] = components[1] ]_vars

\* A pass of the loop has pushed R2 away from R1, which has stayed
C22_Witness ==
    /\ pc = "resolving"
    /\ placement_grid = <<>>
    /\ components[1].position = <<0, 0>>
    /\ components[3].position = <<9, 0>>

\* The sum of f over the indices in S
RECURSIVE SumOver(_, _)
SumOver(f, S) ==
    IF S = {} THEN 0
    ELSE LET j == CHOOSE j \in S : TRUE IN f[j] + SumOver(f, S \ {j})

\* The widths and the heights of the bounding boxes of a list of components
WidthsOf(comps) == [j \in 1..Len(comps) |-> BoxWidth(get_bounding_box(comps[j]))]

HeightsOf(comps) == [j \in 1..Len(comps) |-> BoxHeight(get_bounding_box(comps[j]))]

\* The index at which the kind of the i-th component first appears
FirstOfKind(comps, i) ==
    CHOOSE j \in 1..i : /\ comps[j].kind = comps[i].kind
                        /\ \A h \in 1..(j - 1) : comps[h].kind # comps[i].kind

\* The height of the tallest component of the kind of the j-th
Tallest(comps, j) ==
    LET hs == {HeightsOf(comps)[h] : h \in {h \in 1..Len(comps) : comps[h].kind = comps[j].kind}}
    IN  CHOOSE m \in hs : \A x \in hs : x <= m

\* The base of the row of the i-th component: every kind that first appears
\* earlier takes its tallest height and one spacing
RowBase(comps, i, sp) ==
    LET earlier == {j \in 1..(FirstOfKind(comps, i) - 1) : FirstOfKind(comps, j) = j}
    IN  SumOver([j \in 1..Len(comps) |-> Tallest(comps, j) + sp], earlier)

\* Every component is where the claim says auto_place leaves it
PlacedInRows(comps, sp) ==
    \A i \in 1..Len(comps) :
        LET group == {j \in 1..(i - 1) : comps[j].kind = comps[i].kind}
            bbox == get_bounding_box(comps[i])
        IN  /\ bbox[1][1] = SumOver(WidthsOf(comps), group) + Cardinality(group) * sp
            /\ bbox[1][2] = RowBase(comps, i, sp)

\* C23: auto_place groups the components by their type in the order of first
\* appearance; the k-th component of a group has the left edge of its box at
\* the sum of the widths of the earlier ones of the group plus k spacings and
\* the bottom edge at the base of the row, and the base of the next row is the
\* base of the row plus its tallest height plus the spacing; a second call of
\* auto_place leaves the positions of the first.
C23_AutoPlaceRows ==
    [][ \A sp \in Spacings :
            AutoPlace(sp) =>
                /\ PlacedInRows(components', sp)
                /\ auto_place(components', sp) = components' ]_vars

\* auto_place has put R2 next to R1 and M1 in the second row
C23_Witness ==
    /\ ret.op = "auto_place"
    /\ components[1].position = <<4, 3>>
    /\ components[3].position = <<13, 3>>
    /\ components[2].position = <<2, 9>>

\* C24: no call on the placement engine, the net manager or the rule checker
\* changes the name, the ports, the orientation or the sizes of a component,
\* nor the number or the order of the components: the position is the only
\* field written.
C24_OnlyPositionWritten ==
    [][ /\ Len(components') = Len(components)
        /\ \A i \in 1..Len(components) :
               [components'[i] EXCEPT !.position = components[i].position]
                   = components[i] ]_vars

\* M1 has been moved and snapped, a net added and the rules checked
C24_Witness ==
    /\ ret.op = "run_all_checks"
    /\ nets # <<>>
    /\ placement_grid # <<>>
    /\ components[2].position \notin {Design[2].position} \cup NetMoveTargets

\* C25: between calls, in every state that successful calls on the placement
\* engine have led to, every component that has a constraint is at a position
\* inside all the bounds of the constraint: neither the snap that follows the
\* check in move_component, nor auto_place, nor resolve_overlaps takes a
\* constrained component outside its bounds.
C25_ConstrainedStayInside ==
    pc = "idle" =>
        \A i \in 1..Len(components) :
            components[i].name \in DOMAIN constraints
                => ~OutsideBounds(constraints[components[i].name], components[i].position)

\* C26: a call of add_constraint that fails with ConstraintViolation leaves
\* the constraint map as it was before the call: the bounds it rejects are not
\* stored.
C26_RejectedConstraintNotStored ==
    [][ (ret'.op = "add_constraint" /\ ret'.err = "ConstraintViolation")
            => constraints' = constraints ]_vars

\* C27: with a grid set, resolve_overlaps returns only with no overlap left:
\* after the call check_overlaps() is empty, the snap that ends the call
\* bringing no overlap back.
C27_ResolveOnGridEndsWithoutOverlap ==
    ( /\ pc = "idle"
      /\ ret = Returned("resolve_overlaps", <<>>, "")
      /\ placement_grid # <<>> )
        => check_overlaps(components) = <<>>

\* C28: right after auto_place with a spacing >= 0 and no grid set,
\* check_overlaps() is empty, whatever the list of components: no two
\* components overlap, be they in one row or in different rows.
C28_AutoPlaceLeavesNoOverlap ==
    (ret.op = "auto_place" /\ placement_grid = <<>>)
        => check_overlaps(components) = <<>>

\* auto_place with spacing 0 has put two components of one type side by side,
\* their boxes sharing an edge, and a third in the row above, over the first
C28_Witness ==
    /\ ret.op = "auto_place"
    /\ Len(components) = 3
    /\ \E i, j, k \in 1..3 :
          LET bi == get_bounding_box(components[i])
              bj == get_bounding_box(components[j])
              bk == get_bounding_box(components[k])
          IN  /\ components[i].kind = components[j].kind
              /\ components[k].kind # components[i].kind
              /\ bi[2][1] = bj[1][1]
              /\ Extent(bi, bk, 1) > 0
              /\ bi[2][2] < bk[1][2] + 1
              /\ bk[1][2] > bj[2][2]

---------------------------------------------------------------------------
(* Properties of the routing of a design *)

\* The waypoints of the route of a connection under the connection's own
\* strategy
OwnRoute(comps, conn) ==
    LET from_pos == get_port_position(SpecComponent(comps, conn.from), SpecPort(conn.from))
        to_pos == get_port_position(SpecComponent(comps, conn.to), SpecPort(conn.to))
    IN  IF conn.strategy = "manhattan" THEN LPath(from_pos, to_pos)
        ELSE <<from_pos, to_pos>>

\* C29: route_connections returns exactly one route for each connection, the
\* route generated with the strategy of that connection: n connections
\* between different pairs of ports give n routes.
C29_OneRoutePerConnection ==
    ( /\ ret.op = "route_connections"
      /\ ret.err = ""
      /\ \A i, j \in 1..Len(ret.target) :
            i # j => <<ret.target[i].from, ret.target[i].to>>
                       # <<ret.target[j].from, ret.target[j].to>> )
    => /\ Len(routes) = Len(ret.target)
       /\ \A k \in 1..Len(ret.target) :
             /\ routes[k].points = OwnRoute(components, ret.target[k])
             /\ routes[k].width = ret.target[k].width

\* The pair of port specs a net was added with, from what the net stores
NetPair(comps, net) ==
    << PortSpec(comps[net.from.component].name, net.from.port),
       PortSpec(comps[net.to.component].name, net.to.port) >>

\* C30: the nets are keyed by "fromSpec_to_toSpec", and there are as many
\* nets as different pairs (fromSpec, toSpec) have been added: a call of
\* add_connection with a pair not added before makes one more net, a call
\* with a pair added before makes none and puts the width and the layer
\* given in place of the stored ones; generate_routing returns one route for
\* each key.
C30_OneNetPerPair ==
    [][ /\ \A f \in FromSpecs \cup KeyFromSpecs, t \in ToSpecs \cup KeyToSpecs,
             w \in Widths, l \in Layers \cup KeyLayers :
              (AddConnection(f, t, w, l) /\ ret'.err = "") =>
                  LET held == {k \in 1..Len(nets) : NetPair(components, nets[k]) = <<f, t>>}
                  IN  /\ Len(nets') = IF held = {} THEN Len(nets) + 1 ELSE Len(nets)
                      /\ \A k \in 1..Len(nets) : k \notin held => nets'[k] = nets[k]
                      /\ \E k \in 1..Len(nets') :
                            /\ k \in held \/ k = Len(nets) + 1
                            /\ nets'[k].id = NetId(f, t)
                            /\ NetPair(components, nets'[k]) = <<f, t>>
                            /\ nets'[k].width = w
                            /\ nets'[k].layer = l
                      /\ \A i, j \in 1..Len(nets') : i # j => nets'[i].id # nets'[j].id
        /\ (ret'.op = "generate_routing" /\ ret'.err = "")
              => Len(routes') = Len(nets') ]_vars

===========================================================================
